---------------------------- MODULE Spec2Model ----------------------------
(***************************************************************************)
(* A model of TractorGuruClient (src/services/tractorguru_client.py): the  *)
(* page fetcher, the four TTL caches and the three extraction operations.  *)
(*                                                                         *)
(* Strings are TLA+ strings; the Python string methods the client uses     *)
(* (startswith, strip, rstrip, lstrip, lower, "in") are operators over     *)
(* them.  A page is a parsed document: its length in characters and its    *)
(* elements in document order.  Time is in seconds.  One call of a public  *)
(* operation is one action (the client is synchronous), and reads the      *)
(* clock once.                                                             *)
(***************************************************************************)
EXTENDS Integers, Sequences, FiniteSets, TLC

VARIABLES
    now,            \* the clock the TTL caches read (seconds)
    page_cache,     \* self._page_cache     url -> markup
    brands_cache,   \* self._brands_cache   "brands" -> brand list
    models_cache,   \* self._models_cache   cache_key -> model list
    details_cache,  \* self._details_cache  cache_key -> detail record
    site,           \* the responses the upstream site can give to a GET
    inputs,         \* the paths the callers pass
    ncalls,         \* how many calls the callers have made
    call,           \* the last call of a public operation, as its caller saw it
    returned,       \* per operation and cache key: the last successful return
    tg_client,      \* main.tg_client: TRUE for a client, FALSE for None
    response,       \* the last response of an HTTP endpoint
    sales_data,     \* tapi.sales_data: the companies the sales API serves
    tractor_sales,  \* the rows of the tractor_sales table of framtrack.db
    updated,        \* update_sales_data has run to completion in this process
    last_update,    \* tapi.last_update: <<>> for None, or the time as a string
    market_trends,  \* the rows of the market_trends table of framtrack.db
    callers         \* the callers that are inside an operation at the same time

vars ==
    <<now, page_cache, brands_cache, models_cache, details_cache, site, inputs, ncalls,
      call, returned, tg_client, response, sales_data, tractor_sales, updated, last_update,
      market_trends, callers>>

\* the state of the sales API
salesvars == <<sales_data, tractor_sales, updated, last_update, market_trends>>

-----------------------------------------------------------------------------
(* Bounds of the model.                                                    *)

\* The clock advances in steps of HalfDay, MaxTicks times at most.
MaxTicks == 2
\* The callers make MaxCalls calls at most.
MaxCalls == 3
\* The capacities of the page, models and details caches (128, 128 and 256
\* entries in the source), scaled down so that a cache can fill up.
PageMaxSize == 1
ModelsMaxSize == 1
DetailsMaxSize == 2
\* The longest document the extraction specifications draw.
MaxNodes == 3

(* Program constants.                                                      *)
TTL == 60 * 60 * 24
HalfDay == 12 * 60 * 60
BrandsMaxSize == 1
MinMarkupLen == 500
MaxImages == 10
\* self.base_url
base_url == "https://tractorguru.in"

-----------------------------------------------------------------------------
(* Python string methods.                                                  *)

Char(s, i) == SubSeq(s, i, i)

\* the element of a set of one element: The({e(x) : x \in {v}}) is e(v), with
\* v worked out once
The(S) == CHOOSE x \in S : TRUE

StartsWith(s, p) == Len(s) >= Len(p) /\ SubSeq(s, 1, Len(p)) = p

EndsWith(s, p) == Len(s) >= Len(p) /\ SubSeq(s, Len(s) - Len(p) + 1, Len(s)) = p

\* p in s
Contains(s, p) == \E i \in 1..(Len(s) - Len(p) + 1) : SubSeq(s, i, i + Len(p) - 1) = p

RECURSIVE RStripChars(_, _)
RStripChars(s, cs) ==
    IF Len(s) > 0 /\ Char(s, Len(s)) \in cs
    THEN RStripChars(SubSeq(s, 1, Len(s) - 1), cs)
    ELSE s

RECURSIVE LStripChars(_, _)
LStripChars(s, cs) ==
    IF Len(s) > 0 /\ Char(s, 1) \in cs
    THEN LStripChars(SubSeq(s, 2, Len(s)), cs)
    ELSE s

\* s.rstrip("/") and s.lstrip("/")
RStripSlash(s) == RStripChars(s, {"/"})
LStripSlash(s) == LStripChars(s, {"/"})

Whitespace == {" ", "\t", "\n"}

\* s.strip()
Strip(s) == LStripChars(RStripChars(s, Whitespace), Whitespace)

\* the lower-case letter of each upper-case letter
LowerOf ==
    [c \in {"A", "B", "C", "D", "E", "F", "G", "H", "I", "J", "K", "L", "M", "N", "O",
            "P", "Q", "R", "S", "T", "U", "V", "W", "X", "Y", "Z"} |->
        CASE c = "A" -> "a" [] c = "B" -> "b" [] c = "C" -> "c" [] c = "D" -> "d"
          [] c = "E" -> "e" [] c = "F" -> "f" [] c = "G" -> "g" [] c = "H" -> "h"
          [] c = "I" -> "i" [] c = "J" -> "j" [] c = "K" -> "k" [] c = "L" -> "l"
          [] c = "M" -> "m" [] c = "N" -> "n" [] c = "O" -> "o" [] c = "P" -> "p"
          [] c = "Q" -> "q" [] c = "R" -> "r" [] c = "S" -> "s" [] c = "T" -> "t"
          [] c = "U" -> "u" [] c = "V" -> "v" [] c = "W" -> "w" [] c = "X" -> "x"
          [] c = "Y" -> "y" [] c = "Z" -> "z"]

LowerChar(c) == IF c \in DOMAIN LowerOf THEN LowerOf[c] ELSE c

RECURSIVE Lower(_)
\* s.lower()
Lower(s) == IF s = "" THEN "" ELSE LowerChar(Char(s, 1)) \o Lower(SubSeq(s, 2, Len(s)))

Letters == DOMAIN LowerOf \cup {LowerOf[c] : c \in DOMAIN LowerOf}

\* the characters of a scheme
SchemeChars == Letters \cup {"0", "1", "2", "3", "4", "5", "6", "7", "8", "9", "+", "-", "."}

\* the place of the colon that ends the scheme of a reference, 0 when the
\* reference has no scheme: urlsplit takes for the scheme what stands before
\* the first colon, when it starts with a letter and is made of scheme
\* characters
SchemeEnd(s) ==
    IF s = "" \/ Char(s, 1) \notin Letters THEN 0
    ELSE LET ends == {i \in 2..Len(s) :
                        Char(s, i) = ":" /\ \A j \in 2..(i - 1) : Char(s, j) \in SchemeChars}
         IN  IF ends = {} THEN 0 ELSE CHOOSE i \in ends : TRUE

HasScheme(s) == SchemeEnd(s) > 0

\* urljoin(base, rel) for a base that ends with "/" and a reference without
\* dot segments: a reference of another scheme, or with a host of its own,
\* is returned as it is; any other is resolved under the base.
urljoin(base, rel) ==
    IF ~HasScheme(rel) THEN base \o rel
    ELSE LET n == SchemeEnd(rel)
             rest == SubSeq(rel, n + 1, Len(rel))
         IN  IF Lower(SubSeq(rel, 1, n)) = SubSeq(base, 1, SchemeEnd(base)) /\ ~StartsWith(rest, "//")
             THEN base \o LStripSlash(rest)
             ELSE rel

\* f"/{p}" unless p starts with "/"
LeadingSlash(p) == IF StartsWith(p, "/") THEN p ELSE "/" \o p

\* CacheKey without the rstrip("/")
CacheKeyUnstripped(p) == LeadingSlash(p)

\* cache_key of get_brand_models and get_model_details
CacheKey(p) == RStripSlash(LeadingSlash(p))

-----------------------------------------------------------------------------
(* cachetools.TTLCache: the entries in least-recently-used order (the head *)
(* is evicted first), each with the time it expires.                       *)

TTLKeys(c) == {c[i].key : i \in 1..Len(c)}

TTLIndex(c, k) == CHOOSE i \in 1..Len(c) : c[i].key = k

\* TTLContains that compares the clock with the time the entry was stored,
\* not with the time it expires
TTLContainsLate(c, k, t) == \E i \in 1..Len(c) : c[i].key = k /\ t + TTL < c[i].exp

\* key in cache
TTLContains(c, k, t) == \E i \in 1..Len(c) : c[i].key = k /\ t < c[i].exp

\* the time the entry of a key was stored
TTLStored(c, k) == c[TTLIndex(c, k)].exp - TTL

\* cache[key], for a key the cache contains
TTLValue(c, k) == c[TTLIndex(c, k)].val

RECURSIVE SeqFilterOut(_, _)
SeqFilterOut(c, dead) ==
    IF c = <<>> THEN <<>>
    ELSE IF Head(c) \in dead THEN SeqFilterOut(Tail(c), dead)
    ELSE <<Head(c)>> \o SeqFilterOut(Tail(c), dead)

\* TTLTouch that takes the entry out of the cache
TTLPop(c, k) == SeqFilterOut(c, {c[TTLIndex(c, k)]})

\* cache[key] marks the entry as the most recently used
TTLTouch(c, k) ==
    LET e == c[TTLIndex(c, k)]
    IN  SeqFilterOut(c, {e}) \o <<e>>

\* expire(): drop the entries whose time has come
TTLExpire(c, t) == SeqFilterOut(c, {c[i] : i \in {j \in 1..Len(c) : ~(t < c[j].exp)}})

\* TTLEvict that makes no room
TTLEvictNothing(c, maxsize) == c

RECURSIVE TTLEvict(_, _)
\* popitem() until there is room for one more entry
TTLEvict(c, maxsize) == IF Len(c) + 1 > maxsize THEN TTLEvict(Tail(c), maxsize) ELSE c

\* cache[key] = value
TTLSet(c, k, v, t, maxsize) ==
    LET live == TTLExpire(c, t)
        e == [key |-> k, val |-> v, exp |-> t + TTL]
    IN  IF k \in TTLKeys(live)
        THEN SeqFilterOut(live, {live[TTLIndex(live, k)]}) \o <<e>>
        ELSE TTLEvict(live, maxsize) \o <<e>>

-----------------------------------------------------------------------------
(* Parsed markup.  An element is a record; an attribute is <<>> when the   *)
(* element does not carry it and <<value>> when it does.  A div or li      *)
(* holds its children in kids; a table holds rows of cells, and a cell may *)
(* hold the rows of a table nested in it.                                  *)

El(tag, href, cls, text, src, kids, rows) ==
    [tag |-> tag, href |-> href, cls |-> cls, text |-> text, src |-> src,
     kids |-> kids, rows |-> rows]

Anchor(href, cls, text) == El("a", <<href>>, cls, text, <<>>, <<>>, <<>>)
AnchorNoHref(cls, text) == El("a", <<>>, cls, text, <<>>, <<>>, <<>>)
Img(src) == El("img", <<>>, "", "", <<src>>, <<>>, <<>>)
TextNode(text) == El("text", <<>>, "", text, <<>>, <<>>, <<>>)
Heading(text) == El("h1", <<>>, "", text, <<>>, <<>>, <<>>)
TitleEl(text) == El("title", <<>>, "", text, <<>>, <<>>, <<>>)
Div(cls, kids) == El("div", <<>>, cls, "", <<>>, kids, <<>>)
Li(cls, kids) == El("li", <<>>, cls, "", <<>>, kids, <<>>)
Td(text) == [th |-> FALSE, text |-> text, inner |-> <<>>]
Th(text) == [th |-> TRUE, text |-> text, inner |-> <<>>]
\* <td><table> rows </table></td>
TdTable(rows) == [th |-> FALSE, text |-> "", inner |-> rows]

RECURSIVE TablesInRows(_)
\* the tables nested in the cells of a sequence of rows, in document order:
\* the table of the first cell and the tables nested in it, then those of
\* the cells and rows that follow
TablesInRows(rows) ==
    IF rows = <<>> THEN <<>>
    ELSE IF Head(rows) = <<>> THEN TablesInRows(Tail(rows))
    ELSE LET inner == Head(Head(rows)).inner
         IN  (IF inner = <<>> THEN <<>>
              ELSE <<El("table", <<>>, "", "", <<>>, TablesInRows(inner), inner)>>
                   \o TablesInRows(inner))
             \o TablesInRows(<<Tail(Head(rows))>> \o Tail(rows))

\* a table: its descendants that are tables are its kids
Table(rows) == El("table", <<>>, "", "", <<>>, TablesInRows(rows), rows)

\* response.text: its length and its elements
Markup(size, nodes) == [size |-> size, nodes |-> nodes]

RECURSIVE Flatten(_)
\* the elements in document order: an element, then its children
Flatten(nodes) ==
    IF nodes = <<>> THEN <<>>
    ELSE <<Head(nodes)>> \o Head(nodes).kids \o Flatten(Tail(nodes))

\* GetText without the strip
GetTextUnstripped(el) == el.text

\* el.get_text(strip=True)
GetText(el) == Strip(el.text)

\* soup.find_all("a", href=True)
IsAnchorWithHref(el) == el.tag = "a" /\ el.href # <<>>

\* an optional value: <<>> for None
Some(v) == <<v>>

-----------------------------------------------------------------------------
(* get_brands: extraction                                                  *)

\* re.search(r"/tractor-?brands?/", href, re.I) or re.search(r"/brand/", href, re.I)
IsBrandHref(href) ==
    LET l == Lower(href)
    IN  \/ Contains(l, "/tractor-brands/")
        \/ Contains(l, "/tractor-brand/")
        \/ Contains(l, "/tractorbrands/")
        \/ Contains(l, "/tractorbrand/")
        \/ Contains(l, "/brand/")

Link(text, href) == [name |-> text, href |-> href]

RECURSIVE PrimaryBrandLinks(_)
\* the anchors with text whose href looks like a brand page
PrimaryBrandLinks(els) ==
    IF els = <<>> THEN <<>>
    ELSE LET a == Head(els)
             rest == PrimaryBrandLinks(Tail(els))
         IN  IF IsAnchorWithHref(a) /\ GetText(a) # "" /\ IsBrandHref(Strip(a.href[1]))
             THEN <<Link(GetText(a), Strip(a.href[1]))>> \o rest
             ELSE rest

RECURSIVE FallbackBrandLinks(_)
\* the cards whose class contains "brand": only the anchors among them count
FallbackBrandLinks(els) ==
    IF els = <<>> THEN <<>>
    ELSE LET card == Head(els)
             rest == FallbackBrandLinks(Tail(els))
         IN  IF /\ card.tag \in {"div", "li", "a"}
                /\ Contains(card.cls, "brand")
                /\ card.tag = "a"
                /\ card.href # <<>>
                /\ card.href[1] # ""
                /\ GetText(card) # ""
             THEN <<Link(GetText(card), Strip(card.href[1]))>> \o rest
             ELSE rest

\* BrandLinks with the cards added to the anchors the href pattern found
BrandLinksWithCards(els) == PrimaryBrandLinks(els) \o FallbackBrandLinks(els)

BrandLinks(els) ==
    IF PrimaryBrandLinks(els) # <<>> THEN PrimaryBrandLinks(els) ELSE FallbackBrandLinks(els)

\* the filter of obvious non-brand links
IsJunkName(name) == Len(name) < 2 \/ Contains(Lower(name), "http")

\* slug and key of a brand link
BrandKey(href) == RStripSlash(IF StartsWith(href, "http") THEN href ELSE LeadingSlash(href))

Brand(name, key) ==
    [name |-> name, path |-> key, url |-> urljoin(base_url \o "/", LStripSlash(key))]

RECURSIVE DedupeBrandsLastWins(_, _, _)
\* DedupeBrands with a later link of a key replacing the earlier one
DedupeBrandsLastWins(links, seen, brands) ==
    IF links = <<>> THEN brands
    ELSE LET l == Head(links)
             key == BrandKey(l.href)
         IN  IF IsJunkName(l.name)
             THEN DedupeBrandsLastWins(Tail(links), seen, brands)
             ELSE IF key \in seen
             THEN DedupeBrandsLastWins(Tail(links), seen,
                    [i \in 1..Len(brands) |->
                        IF brands[i].path = key THEN Brand(l.name, key) ELSE brands[i]])
             ELSE DedupeBrandsLastWins(Tail(links), seen \cup {key},
                    Append(brands, Brand(l.name, key)))

RECURSIVE DedupeBrands(_, _, _)
\* "Normalize and dedupe": the first link of a key stays
DedupeBrands(links, seen, brands) ==
    IF links = <<>> THEN brands
    ELSE LET l == Head(links)
             key == BrandKey(l.href)
         IN  IF IsJunkName(l.name) \/ key \in seen
             THEN DedupeBrands(Tail(links), seen, brands)
             ELSE DedupeBrands(Tail(links), seen \cup {key}, Append(brands, Brand(l.name, key)))

ExtractBrands(html) == DedupeBrands(BrandLinks(Flatten(html.nodes)), {}, <<>>)

-----------------------------------------------------------------------------
(* get_brand_models: extraction                                            *)

\* soup.select('a[href*="/tractor"], div[class*="model"], li[class*="model"]')
IsModelCard(el) ==
    \/ el.tag = "a" /\ el.href # <<>> /\ Contains(el.href[1], "/tractor")
    \/ el.tag \in {"div", "li"} /\ Contains(el.cls, "model")

\* The currency sign of the price pattern, which is not an ASCII string.
CurrencySign == "{rupee}"

\* re.compile(r"<currency sign>|Rs|Price", re.IGNORECASE)
IsPriceText(s) ==
    LET l == Lower(s)
    IN  Contains(l, CurrencySign) \/ Contains(l, "rs") \/ Contains(l, "price")

\* the first element of a selection, <<>> when it is empty
FirstOf(selected) == IF selected = <<>> THEN <<>> ELSE <<Head(selected)>>

HasSrc(el) == el.tag = "img" /\ el.src # <<>>

\* a string of the document that matches the price pattern
HasPriceString(el) == el.tag \in {"a", "text"} /\ el.text # "" /\ IsPriceText(el.text)

\* CardFields that takes the price of a plain anchor from the anchor's text
CardFieldsWithAnchorPrice(card) ==
    IF card.tag = "a" /\ card.href # <<>> /\ card.href[1] # ""
    THEN [href |-> Some(Strip(card.href[1])), name |-> Some(GetText(card)),
          img |-> <<>>,
          price |-> IF IsPriceText(card.text) THEN Some(Strip(card.text)) ELSE <<>>]
    ELSE LET a == FirstOf(SelectSeq(card.kids, IsAnchorWithHref))
             img_el == FirstOf(SelectSeq(card.kids, HasSrc))
             price_el == FirstOf(SelectSeq(card.kids, HasPriceString))
         IN  [href |-> IF a = <<>> THEN <<>> ELSE Some(Strip(a[1].href[1])),
              name |-> IF a = <<>> THEN <<>> ELSE Some(GetText(a[1])),
              img |-> IF img_el = <<>> THEN <<>> ELSE Some(Strip(img_el[1].src[1])),
              price |-> IF price_el = <<>> THEN <<>> ELSE Some(Strip(price_el[1].text))]

\* href, name, thumbnail and price of one selected card
CardFields(card) ==
    IF card.tag = "a" /\ card.href # <<>> /\ card.href[1] # ""
    THEN [href |-> Some(Strip(card.href[1])), name |-> Some(GetText(card)),
          img |-> <<>>, price |-> <<>>]
    ELSE LET a == FirstOf(SelectSeq(card.kids, IsAnchorWithHref))
             img_el == FirstOf(SelectSeq(card.kids, HasSrc))
             price_el == FirstOf(SelectSeq(card.kids, HasPriceString))
         IN  [href |-> IF a = <<>> THEN <<>> ELSE Some(Strip(a[1].href[1])),
              name |-> IF a = <<>> THEN <<>> ELSE Some(GetText(a[1])),
              img |-> IF img_el = <<>> THEN <<>> ELSE Some(Strip(img_el[1].src[1])),
              price |-> IF price_el = <<>> THEN <<>> ELSE Some(Strip(price_el[1].text))]

\* "if not href or not name: continue"
IsCandidate(f) == f.href # <<>> /\ f.href[1] # "" /\ f.name # <<>> /\ f.name[1] # ""

Model(f) ==
    LET model_path == LeadingSlash(f.href[1])
    IN  [name |-> f.name[1], path |-> model_path,
         url |-> urljoin(base_url \o "/", LStripSlash(model_path)),
         thumbnail |-> f.img, price |-> f.price]

RECURSIVE ModelCandidates(_)
\* the list "models" before the dedupe
ModelCandidates(els) ==
    IF els = <<>> THEN <<>>
    ELSE LET rest == ModelCandidates(Tail(els))
         IN  IF IsModelCard(Head(els)) /\ IsCandidate(CardFields(Head(els)))
             THEN <<Model(CardFields(Head(els)))>> \o rest
             ELSE rest

\* DictPut that keeps the entry a path already has
DictPutFirstWins(d, m) ==
    IF \E i \in 1..Len(d) : d[i].path = m.path THEN d ELSE Append(d, m)

\* deduped[m["path"]] = m: a dict keeps the place of a key's first insertion
DictPut(d, m) ==
    IF \E i \in 1..Len(d) : d[i].path = m.path
    THEN [i \in 1..Len(d) |-> IF d[i].path = m.path THEN m ELSE d[i]]
    ELSE Append(d, m)

RECURSIVE DedupeModels(_, _)
\* "Basic dedupe by path"
DedupeModels(models, deduped) ==
    IF models = <<>> THEN deduped
    ELSE DedupeModels(Tail(models), DictPut(deduped, Head(models)))

ExtractModels(html) == DedupeModels(ModelCandidates(Flatten(html.nodes)), <<>>)

-----------------------------------------------------------------------------
(* get_model_details: extraction                                           *)

IsTag(el, tag) == el.tag = tag

IsHeading(el) == IsTag(el, "h1")
IsTitle(el) == IsTag(el, "title")
IsTable(el) == IsTag(el, "table")

\* soup.find("h1"), else soup.title, else ""
TitleText(els) ==
    IF SelectSeq(els, IsHeading) # <<>> THEN GetText(Head(SelectSeq(els, IsHeading)))
    ELSE IF SelectSeq(els, IsTitle) # <<>> THEN GetText(Head(SelectSeq(els, IsTitle)))
    ELSE ""

IsTh(cell) == cell.th
IsTd(cell) == ~cell.th

RECURSIVE AllCells(_)
\* the cells below a sequence of rows, those of nested tables included, in
\* document order: the first cell, the cells nested in it, then the cells
\* and rows that follow
AllCells(rows) ==
    IF rows = <<>> THEN <<>>
    ELSE IF Head(rows) = <<>> THEN AllCells(Tail(rows))
    ELSE <<Head(Head(rows))>>
         \o AllCells(Head(Head(rows)).inner \o <<Tail(Head(rows))>> \o Tail(rows))

\* row.find_all(["td", "th"]): the cells below a row
CellsOf(cells) == AllCells(<<cells>>)

RECURSIVE InnerRows(_)
\* the rows of the tables that stand in the cells of a row
InnerRows(cells) ==
    IF cells = <<>> THEN <<>> ELSE Head(cells).inner \o InnerRows(Tail(cells))

RECURSIVE AllRows(_)
\* table.find_all("tr"): the rows below a table, those of nested tables
\* included, in document order
AllRows(rows) ==
    IF rows = <<>> THEN <<>>
    ELSE <<Head(rows)>> \o AllRows(InnerRows(Head(rows))) \o AllRows(Tail(rows))

RECURSIVE JoinText(_)
\* the stripped strings of a sequence of cells, joined
JoinText(cells) ==
    IF cells = <<>> THEN "" ELSE Strip(Head(cells).text) \o JoinText(Tail(cells))

\* c.get_text(strip=True) of a cell: its strings and those of its descendants
CellText(cell) == JoinText(CellsOf(<<cell>>))

\* headers = [th.get_text(strip=True) for th in table.find_all("th")]
Headers(table) == SelectSeq(AllCells(table.rows), IsTh)

\* the cells of a row that the table's kind reads
RowCells(table, row) ==
    IF Len(Headers(table)) <= 1 THEN CellsOf(row) ELSE SelectSeq(CellsOf(row), IsTd)

\* specs[key] = value
SpecPut(specs, key, value) ==
    IF \E i \in 1..Len(specs) : specs[i].key = key
    THEN [i \in 1..Len(specs) |-> IF specs[i].key = key THEN [key |-> key, value |-> value] ELSE specs[i]]
    ELSE Append(specs, [key |-> key, value |-> value])

RECURSIVE RowSpecs(_, _, _)
\* the rows of one table, in order
RowSpecs(table, rows, specs) ==
    IF rows = <<>> THEN specs
    ELSE LET cells == RowCells(table, Head(rows))
         IN  IF Len(cells) = 2 /\ CellText(cells[1]) # "" /\ CellText(cells[2]) # ""
             THEN RowSpecs(table, Tail(rows), SpecPut(specs, CellText(cells[1]), CellText(cells[2])))
             ELSE RowSpecs(table, Tail(rows), specs)

RECURSIVE TableSpecs(_, _)
\* the tables of the page, in order
TableSpecs(tables, specs) ==
    IF tables = <<>> THEN specs
    ELSE TableSpecs(Tail(tables), RowSpecs(Head(tables), AllRows(Head(tables).rows), specs))

HasNonEmptySrc(el) == el.tag = "img" /\ el.src # <<>> /\ el.src[1] # ""

\* [img["src"].strip() for img in soup.find_all("img", src=True) if img.get("src")]
ImageSources(els) ==
    LET imgs == SelectSeq(els, HasNonEmptySrc)
    IN  [i \in 1..Len(imgs) |-> Strip(imgs[i].src[1])]

\* Truncate that keeps one image more
TruncateOneMore(images) ==
    SubSeq(images, 1, IF Len(images) < MaxImages + 1 THEN Len(images) ELSE MaxImages + 1)

\* images[:10]
Truncate(images) == SubSeq(images, 1, IF Len(images) < MaxImages THEN Len(images) ELSE MaxImages)

ExtractDetails(html, cache_key) ==
    LET els == Flatten(html.nodes)
    IN  [title |-> TitleText(els),
         path |-> cache_key,
         url |-> urljoin(base_url \o "/", LStripSlash(cache_key)),
         specs |-> TableSpecs(SelectSeq(els, IsTable), <<>>),
         images |-> Truncate(ImageSources(els))]

-----------------------------------------------------------------------------
(* _fetch                                                                  *)

\* what session.get and raise_for_status make of a request: the markup, or
\* the exception raised
Ok(html) == [status |-> "ok", body |-> html]
Failure(kind) == [status |-> kind, body |-> Markup(0, <<>>)]

Exceptions == {"ConnectionError", "Timeout", "HTTPError"}

\* the URL _fetch requests
ResolveUrl(path_or_url) ==
    IF StartsWith(path_or_url, "http")
    THEN path_or_url
    ELSE urljoin(base_url \o "/", LStripSlash(LeadingSlash(path_or_url)))

\* Fetch that stores the body of a failed response before it raises
FetchStoringFailure(cache, path_or_url, t, resp) ==
    The({IF TTLContains(cache, url, t)
         THEN [url |-> url, gets |-> 0, at |-> TTLStored(cache, url), error |-> <<>>,
               html |-> Some(TTLValue(cache, url)), cache |-> TTLTouch(cache, url)]
         ELSE IF resp.status # "ok"
         THEN [url |-> url, gets |-> 1, at |-> t, error |-> Some(resp.status),
               html |-> <<>>, cache |-> TTLSet(cache, url, resp.body, t, PageMaxSize)]
         ELSE [url |-> url, gets |-> 1, at |-> t, error |-> <<>>,
               html |-> Some(resp.body),
               cache |-> TTLSet(cache, url, resp.body, t, PageMaxSize)]
          : url \in {ResolveUrl(path_or_url)}})

\* Fetch with one more GET after a failed one
FetchWithRetry(cache, path_or_url, t, resp) ==
    The({IF TTLContains(cache, url, t)
         THEN [url |-> url, gets |-> 0, at |-> TTLStored(cache, url), error |-> <<>>,
               html |-> Some(TTLValue(cache, url)), cache |-> TTLTouch(cache, url)]
         ELSE IF resp.status # "ok"
         THEN [url |-> url, gets |-> 2, at |-> t, error |-> Some(resp.status),
               html |-> <<>>, cache |-> cache]
         ELSE [url |-> url, gets |-> 1, at |-> t, error |-> <<>>,
               html |-> Some(resp.body),
               cache |-> TTLSet(cache, url, resp.body, t, PageMaxSize)]
          : url \in {ResolveUrl(path_or_url)}})

\* Fetch without the look into the page cache
FetchUncached(cache, path_or_url, t, resp) ==
    The({IF resp.status # "ok"
         THEN [url |-> url, gets |-> 1, at |-> t, error |-> Some(resp.status),
               html |-> <<>>, cache |-> cache]
         ELSE [url |-> url, gets |-> 1, at |-> t, error |-> <<>>,
               html |-> Some(resp.body),
               cache |-> TTLSet(cache, url, resp.body, t, PageMaxSize)]
          : url \in {ResolveUrl(path_or_url)}})

\* Fetch that returns the markup of a GET without storing it
FetchNoStore(cache, path_or_url, t, resp) ==
    The({IF TTLContains(cache, url, t)
         THEN [url |-> url, gets |-> 0, at |-> TTLStored(cache, url), error |-> <<>>,
               html |-> Some(TTLValue(cache, url)), cache |-> TTLTouch(cache, url)]
         ELSE IF resp.status # "ok"
         THEN [url |-> url, gets |-> 1, at |-> t, error |-> Some(resp.status),
               html |-> <<>>, cache |-> cache]
         ELSE [url |-> url, gets |-> 1, at |-> t, error |-> <<>>,
               html |-> Some(resp.body), cache |-> cache]
          : url \in {ResolveUrl(path_or_url)}})

\* One call of _fetch at time t, when the site would answer resp: the
\* exception raised (if any), the markup returned, the page cache afterwards,
\* the number of GETs that went out and the time of the GET that brought the
\* markup.
Fetch(cache, path_or_url, t, resp) ==
    The({IF TTLContains(cache, url, t)
         THEN [url |-> url, gets |-> 0, at |-> TTLStored(cache, url), error |-> <<>>,
               html |-> Some(TTLValue(cache, url)), cache |-> TTLTouch(cache, url)]
         ELSE IF resp.status # "ok"
         THEN [url |-> url, gets |-> 1, at |-> t, error |-> Some(resp.status),
               html |-> <<>>, cache |-> cache]
         ELSE [url |-> url, gets |-> 1, at |-> t, error |-> <<>>,
               html |-> Some(resp.body),
               cache |-> TTLSet(cache, url, resp.body, t, PageMaxSize)]
          : url \in {ResolveUrl(path_or_url)}})

\* what a call's record keeps of one _fetch
FetchLog(f) ==
    [url |-> f.url, gets |-> f.gets, at |-> f.at, error |-> f.error, html |-> f.html]

-----------------------------------------------------------------------------
(* The record of a call: what went in, every _fetch it made, the markup it *)
(* parsed and how it ended.                                                *)

\* the operation returns a value
Return(value) == [outcome |-> "return", error |-> "", result |-> Some(value)]

\* Raise turned into the return of an empty value
Swallow(exception) == [outcome |-> "return", error |-> "", result |-> Some(<<>>)]

\* an exception leaves the operation
Raise(exception) == [outcome |-> "raise", error |-> exception, result |-> <<>>]

CallRecord(op, arg, key, fetches, parsed, end) ==
    [op |-> op, arg |-> arg, key |-> key, fetches |-> fetches, parsed |-> parsed,
     outcome |-> end.outcome, error |-> end.error, result |-> end.result]

RECURSIVE MarkupTime(_)
\* the time of the GET that brought the markup a call holds after these
\* fetches: that of its last fetch that returned markup
MarkupTime(fetches) ==
    IF fetches = <<>> THEN now
    ELSE IF fetches[Len(fetches)].error = <<>> THEN fetches[Len(fetches)].at
    ELSE MarkupTime(SubSeq(fetches, 1, Len(fetches) - 1))

\* The history of successful returns, after this call: when the value was
\* returned and for which argument, when it was stored and for which, and
\* when the GET went out that brought the markup it was extracted from.
Remember(op, arg, key, cache, end, fetches) ==
    IF end.outcome # "return" \/ <<op, key>> \notin DOMAIN returned THEN returned
    ELSE [returned EXCEPT ![<<op, key>>] =
            Some([t |-> now, arg |-> arg,
                  s |-> IF TTLContains(cache, key, now) /\ @ # <<>> THEN @[1].s ELSE now,
                  by |-> IF TTLContains(cache, key, now) /\ @ # <<>> THEN @[1].by ELSE arg,
                  got |-> IF TTLContains(cache, key, now) /\ @ # <<>> THEN @[1].got
                          ELSE MarkupTime(fetches),
                  res |-> end.result[1]])]

-----------------------------------------------------------------------------
(* get_brand_models                                                        *)

GetBrandModels(brand_path, resp) ==
    \E cache_key \in {CacheKey(brand_path)} :
    \E f \in {Fetch(page_cache, cache_key, now, resp)} :
    \E result \in {IF f.error # <<>> THEN <<>> ELSE ExtractModels(f.html[1])} :
    \E end \in {IF TTLContains(models_cache, cache_key, now)
                THEN Return(TTLValue(models_cache, cache_key))
                ELSE IF f.error # <<>> THEN Raise(f.error[1])
                ELSE Return(result)} :
        /\ IF TTLContains(models_cache, cache_key, now)
           THEN /\ models_cache' = TTLTouch(models_cache, cache_key)
                /\ page_cache' = page_cache
                /\ call' = CallRecord("get_brand_models", brand_path, cache_key, <<>>, <<>>, end)
           ELSE /\ page_cache' = f.cache
                /\ models_cache' = IF f.error # <<>> THEN models_cache
                                   ELSE TTLSet(models_cache, cache_key, result, now, ModelsMaxSize)
                /\ call' = CallRecord("get_brand_models", brand_path, cache_key,
                                      <<FetchLog(f)>>, f.html, end)
        /\ returned' = Remember("get_brand_models", brand_path, cache_key, models_cache, end,
                             <<FetchLog(f)>>)
        /\ UNCHANGED <<now, brands_cache, details_cache, site, inputs>>

-----------------------------------------------------------------------------
(* get_model_details                                                       *)

GetModelDetails(model_path, resp) ==
    \E cache_key \in {CacheKey(model_path)} :
    \E f \in {Fetch(page_cache, cache_key, now, resp)} :
    \E data \in {IF f.error # <<>> THEN <<>> ELSE ExtractDetails(f.html[1], cache_key)} :
    \E end \in {IF TTLContains(details_cache, cache_key, now)
                THEN Return(TTLValue(details_cache, cache_key))
                ELSE IF f.error # <<>> THEN Raise(f.error[1])
                ELSE Return(data)} :
        /\ IF TTLContains(details_cache, cache_key, now)
           THEN /\ details_cache' = TTLTouch(details_cache, cache_key)
                /\ page_cache' = page_cache
                /\ call' = CallRecord("get_model_details", model_path, cache_key, <<>>, <<>>, end)
           ELSE /\ page_cache' = f.cache
                /\ details_cache' = IF f.error # <<>> THEN details_cache
                                    ELSE TTLSet(details_cache, cache_key, data, now, DetailsMaxSize)
                /\ call' = CallRecord("get_model_details", model_path, cache_key,
                                      <<FetchLog(f)>>, f.html, end)
        /\ returned' = Remember("get_model_details", model_path, cache_key, details_cache, end,
                             <<FetchLog(f)>>)
        /\ UNCHANGED <<now, brands_cache, models_cache, site, inputs>>

-----------------------------------------------------------------------------
(* get_brands                                                              *)

\* possible_paths that tries the first listing path a second time
possible_paths_again == <<"/tractor-brands", "/tractor-brands", "/tractor/brands">>

possible_paths == <<"/tractor-brands", "/tractor-brand", "/tractor/brands">>

\* IsUsable without the threshold: any markup that is not empty ends the loop
IsUsableNonEmpty(html) == html.size > 0

\* "if html and len(html) > 500: break"
IsUsable(html) == html.size > 0 /\ html.size > MinMarkupLen

\* a handler that catches timeouts only
CaughtTimeoutOnly(exception) == exception = "Timeout"

\* "except Exception": the exceptions the loop's handler catches
Caught(exception) == TRUE

RECURSIVE TryPaths(_, _, _, _, _)
\* The loop over possible_paths: resps[i] is what the site would answer to
\* the i-th path.  html is the loop's variable, fetches what it has done,
\* raised the exception that left the loop uncaught (none does).
TryPaths(candidates, resps, html, cache, fetches) ==
    IF candidates = <<>>
    THEN [html |-> html, cache |-> cache, fetches |-> fetches, raised |-> <<>>]
    ELSE The({LET done == Append(fetches, FetchLog(f))
              IN  IF f.error # <<>>
                  THEN IF Caught(f.error[1])
                       THEN TryPaths(Tail(candidates), Tail(resps), html, f.cache, done)
                       ELSE [html |-> html, cache |-> f.cache, fetches |-> done,
                             raised |-> f.error]
                  ELSE IF IsUsable(f.html[1])
                  THEN [html |-> f.html, cache |-> f.cache, fetches |-> done, raised |-> <<>>]
                  ELSE TryPaths(Tail(candidates), Tail(resps), f.html, f.cache, done)
              : f \in {Fetch(cache, Head(candidates), now, Head(resps))}})

\* NoMarkup as "if html is None": the empty string counts as markup
NoMarkupNone(html) == html = <<>>

\* "if not html": None or the empty string
NoMarkup(html) == html = <<>> \/ html[1].size = 0

GetBrands(resps) ==
    \E loop \in {TryPaths(possible_paths, resps, <<>>, page_cache, <<>>)} :
    \E stop \in {loop.raised # <<>> \/ NoMarkup(loop.html)} :
    \E brands \in {IF stop THEN <<>> ELSE ExtractBrands(loop.html[1])} :
    \E end \in {IF TTLContains(brands_cache, "brands", now)
                THEN Return(TTLValue(brands_cache, "brands"))
                ELSE IF loop.raised # <<>> THEN Raise(loop.raised[1])
                ELSE IF NoMarkup(loop.html) THEN Return(<<>>)
                ELSE Return(brands)} :
        /\ IF TTLContains(brands_cache, "brands", now)
           THEN /\ brands_cache' = TTLTouch(brands_cache, "brands")
                /\ page_cache' = page_cache
                /\ call' = CallRecord("get_brands", "", "brands", <<>>, <<>>, end)
           ELSE /\ page_cache' = loop.cache
                /\ brands_cache' = IF stop THEN brands_cache
                                   ELSE TTLSet(brands_cache, "brands", brands, now, BrandsMaxSize)
                /\ call' = CallRecord("get_brands", "", "brands", loop.fetches,
                                      IF stop THEN <<>> ELSE loop.html, end)
        /\ returned' = Remember("get_brands", "", "brands", brands_cache, end, loop.fetches)
        /\ UNCHANGED <<now, models_cache, details_cache, site, inputs>>

-----------------------------------------------------------------------------
(* The clock, the callers and the site.                                    *)

Operations == {"get_brand_models", "get_model_details"}

\* the entries of the history: one per operation and cache key
OpKeys(ps) == {<<"get_brands", "brands">>} \cup (Operations \X {CacheKey(p) : p \in ps})

NoCall ==
    [op |-> "none", arg |-> "", key |-> "", fetches |-> <<>>, parsed |-> <<>>,
     outcome |-> "none", error |-> "", result |-> <<>>]

\* no request has been answered
NoResponse == [endpoint |-> "none", query |-> <<>>, status |-> 0, body |-> <<>>, invoked |-> FALSE]

\* TractorGuruClient(): empty caches
Fresh ==
    /\ now = 0
    /\ page_cache = <<>>
    /\ brands_cache = <<>>
    /\ models_cache = <<>>
    /\ details_cache = <<>>
    /\ call = NoCall
    /\ ncalls = 0
    /\ returned = [ok \in OpKeys(inputs) |-> <<>>]
    /\ tg_client = TRUE
    /\ response = NoResponse
    /\ sales_data = <<>>
    /\ tractor_sales = <<>>
    /\ updated = FALSE
    /\ last_update = <<>>
    /\ market_trends = <<>>
    /\ callers = <<>>

\* Time passes between two calls.  The history forgets a return once 24
\* hours have passed since.
Tick ==
    /\ now < MaxTicks * HalfDay
    /\ now' = now + HalfDay
    /\ returned' = [ok \in DOMAIN returned |->
                      IF returned[ok] # <<>> /\ now' - returned[ok][1].t >= TTL
                      THEN <<>> ELSE returned[ok]]
    /\ UNCHANGED <<page_cache, brands_cache, models_cache, details_cache, site, inputs,
                   ncalls, call, tg_client, response, salesvars, callers>>

\* a caller makes one more call
Counted == ncalls < MaxCalls /\ ncalls' = ncalls + 1

\* a caller that holds the client calls it without the HTTP layer
Direct == tg_client /\ UNCHANGED <<tg_client, response, salesvars, callers>>

CallBrandModels ==
    \E p \in inputs, resp \in site : Counted /\ GetBrandModels(p, resp) /\ Direct

CallModelDetails ==
    \E p \in inputs, resp \in site : Counted /\ GetModelDetails(p, resp) /\ Direct

\* The answers to the three listing paths.  An answer that follows a usable
\* listing is never asked for, so it is not drawn.
ListingAnswers ==
    {r \in site \X site \X site :
        /\ (r[1].status = "ok" /\ IsUsable(r[1].body)) => (r[2] = r[1] /\ r[3] = r[1])
        /\ (r[2].status = "ok" /\ IsUsable(r[2].body)) => r[3] = r[2]}

CallBrands == \E resps \in ListingAnswers : Counted /\ GetBrands(resps) /\ Direct

-----------------------------------------------------------------------------
(* main.py: the three /api/tractorguru endpoints.  A request carries a     *)
(* query, <<>> when the path parameter is missing and <<p>> when it is p.  *)

\* request.args.get(name, default)
ArgsGet(query, default) == IF query = <<>> THEN default ELSE query[1]

\* str(exc): the message text of an exception
Str(exception) ==
    CASE exception = "Timeout" -> "Read timed out."
      [] exception = "ConnectionError" -> "Connection refused"
      [] exception = "HTTPError" -> "404 Client Error: Not Found"
      [] OTHER -> ""

\* jsonify({"error": message})
ErrorBody(message) == [kind |-> "error", error |-> message, data |-> <<>>]

\* jsonify(value)
DataBody(value) == [kind |-> "data", error |-> "", data |-> <<value>>]

Respond(endpoint, query, status, body, invoked) ==
    [endpoint |-> endpoint, query |-> query, status |-> status, body |-> body,
     invoked |-> invoked]

\* Wrapped that answers 200 with an empty value when the operation raised
WrappedQuietly(c) ==
    IF c.outcome = "raise"
    THEN [status |-> 200, body |-> DataBody(<<>>)]
    ELSE [status |-> 200, body |-> DataBody(c.result[1])]

\* try: return jsonify(result)  except Exception as exc: ..., 500
Wrapped(c) ==
    IF c.outcome = "raise"
    THEN [status |-> 500, body |-> ErrorBody(Str(c.error))]
    ELSE [status |-> 200, body |-> DataBody(c.result[1])]

\* "if not tg_client: return jsonify({"error": ...}), 503"
Unavailable(endpoint, query) ==
    /\ ~tg_client
    /\ response' = Respond(endpoint, query, 503, ErrorBody("TractorGuru client unavailable"), FALSE)
    /\ UNCHANGED <<now, page_cache, brands_cache, models_cache, details_cache, site, inputs,
                   ncalls, call, returned, tg_client, salesvars, callers>>

\* "if not brand_path: return jsonify({"error": ...}), 400"
MissingParam(endpoint, query) ==
    /\ tg_client
    /\ ArgsGet(query, "") = ""
    /\ response' = Respond(endpoint, query, 400,
                           ErrorBody("Missing required query param: path"), FALSE)
    /\ UNCHANGED <<now, page_cache, brands_cache, models_cache, details_cache, site, inputs,
                   ncalls, call, returned, tg_client, salesvars, callers>>

\* the handler's answer once the client's operation has ended
Answered(endpoint, query) ==
    /\ response' = Respond(endpoint, query, Wrapped(call').status, Wrapped(call').body, TRUE)
    /\ UNCHANGED <<tg_client, salesvars, callers>>

\* the queries the requests carry
Queries == {<<>>} \cup {<<p>> : p \in inputs}

api_tg_brands ==
    \/ Unavailable("brands", <<>>)
    \/ \E resps \in ListingAnswers :
          tg_client /\ Counted /\ GetBrands(resps) /\ Answered("brands", <<>>)

api_tg_brand_models ==
    \E query \in Queries :
        \/ Unavailable("brand_models", query)
        \/ MissingParam("brand_models", query)
        \/ \E resp \in site :
              /\ tg_client /\ ArgsGet(query, "") # ""
              /\ Counted /\ GetBrandModels(ArgsGet(query, ""), resp)
              /\ Answered("brand_models", query)

api_tg_model_details ==
    \E query \in Queries :
        \/ Unavailable("model_details", query)
        \/ MissingParam("model_details", query)
        \/ \E resp \in site :
              /\ tg_client /\ ArgsGet(query, "") # ""
              /\ Counted /\ GetModelDetails(ArgsGet(query, ""), resp)
              /\ Answered("model_details", query)

-----------------------------------------------------------------------------
(* tapi.py: the sales API.  A company is its rank, name and daily sales.   *)

\* the configured companies in the order of the dict, with their base_sales
TRACTOR_COMPANIES ==
    <<[name |-> "John Deere", base_sales |-> 850],
      [name |-> "Kubota", base_sales |-> 420],
      [name |-> "New Holland", base_sales |-> 380],
      [name |-> "Mahindra", base_sales |-> 310],
      [name |-> "Massey Ferguson", base_sales |-> 275]>>

\* TractorCompany(rank=..., company_name=..., daily_sales=...)
TractorCompany(rank, company_name, daily_sales) ==
    [rank |-> rank, company_name |-> company_name, daily_sales |-> daily_sales]

\* the public names of the random module among those fetch_external_data
\* uses: the module has uniform, and it has no sin
RandomModule == {"uniform"}

\* looking up a name of the random module raises AttributeError
RaisesAttributeError(name) == name \notin RandomModule

\* random.uniform(0.85, 1.25), in percent
Variations == {85, 100, 125}

\* the loop of fetch_external_data when no line of it raises
CurrentData(variation) ==
    [rank \in 1..Len(TRACTOR_COMPANIES) |->
        TractorCompany(rank, TRACTOR_COMPANIES[rank].name,
                       (TRACTOR_COMPANIES[rank].base_sales * variation) \div 100)]

\* fetch_external_data: the list, or <<>> for the None of its except branch.
\* The first turn of the loop evaluates random.sin.
fetch_external_data(variation) ==
    IF TRACTOR_COMPANIES # <<>> /\ RaisesAttributeError("sin")
    THEN <<>>
    ELSE <<CurrentData(variation)>>

\* "if new_data": neither None nor an empty list
IsTruthy(new_data) == new_data # <<>> /\ new_data[1] # <<>>

\* save_to_database: the table is cleared and the companies inserted
save_to_database(data) == data

RECURSIVE InsertByRank(_, _)
\* a row put into rows that are in the order of their ranks
InsertByRank(rows, row) ==
    IF rows = <<>> THEN <<row>>
    ELSE IF row.rank < Head(rows).rank THEN <<row>> \o rows
    ELSE <<Head(rows)>> \o InsertByRank(Tail(rows), row)

RECURSIVE OrderByRank(_)
\* SELECT ... FROM tractor_sales ORDER BY rank
OrderByRank(rows) ==
    IF rows = <<>> THEN <<>>
    ELSE InsertByRank(OrderByRank(SubSeq(rows, 1, Len(rows) - 1)), rows[Len(rows)])

\* load_from_database
load_from_database(table) == OrderByRank(table)

\* datetime.now().isoformat()
isoformat(t) == ToString(t)

\* company.last_updated of a row that an earlier process wrote
last_updated(company) == "earlier"

\* a row of market_trends: its trend_type and date_recorded columns
TrendRow(trend_type, date_recorded) ==
    [trend_type |-> trend_type, date_recorded |-> date_recorded]

\* SalesUpdate that assigns what the fetch gave whatever it is
SalesUpdateClearing(new_data, data, table, stamp, trends) ==
    IF IsTruthy(new_data)
    THEN [sales_data |-> new_data[1],
          tractor_sales |-> save_to_database(new_data[1]),
          last_update |-> Some(isoformat(now)),
          market_trends |-> trends \o <<TrendRow("total_daily_sales", isoformat(now)),
                                        TrendRow("avg_revenue", isoformat(now))>>]
    ELSE [sales_data |-> <<>>, tractor_sales |-> table, last_update |-> stamp,
          market_trends |-> trends]

\* update_sales_data after its fetch: "if new_data: ... else: print(...)"
SalesUpdate(new_data, data, table, stamp, trends) ==
    IF IsTruthy(new_data)
    THEN [sales_data |-> new_data[1],
          tractor_sales |-> save_to_database(new_data[1]),
          last_update |-> Some(isoformat(now)),
          market_trends |-> trends \o <<TrendRow("total_daily_sales", isoformat(now)),
                                        TrendRow("avg_revenue", isoformat(now))>>]
    ELSE [sales_data |-> data, tractor_sales |-> table, last_update |-> stamp,
          market_trends |-> trends]

\* what update_sales_data makes of sales_data and of the table
UpdatedSales(data, table, variation) ==
    SalesUpdate(fetch_external_data(variation), data, table, <<>>, <<>>)

\* update_sales_data, run by the scheduler or by /api/v1/update-data
update_sales_data ==
    \E variation \in Variations :
    \E u \in {SalesUpdate(fetch_external_data(variation), sales_data, tractor_sales,
                          last_update, market_trends)} :
        /\ sales_data' = u.sales_data
        /\ tractor_sales' = u.tractor_sales
        /\ last_update' = u.last_update
        /\ market_trends' = u.market_trends
        /\ updated' = TRUE
        /\ UNCHANGED <<now, page_cache, brands_cache, models_cache, details_cache, site, inputs,
                       ncalls, call, returned, tg_client, response, callers>>

\* raise HTTPException(status_code=..., detail=...)
HTTPException(endpoint, query, status_code, detail) ==
    Respond(endpoint, query, status_code, ErrorBody(detail), FALSE)

\* a request to the sales API changes its response only
Requested ==
    UNCHANGED <<now, page_cache, brands_cache, models_cache, details_cache, site, inputs,
                ncalls, call, returned, tg_client, salesvars, callers>>

\* GET /api/v1/tractor-sales
get_tractor_sales ==
    /\ response' =
          IF sales_data = <<>>
          THEN HTTPException("tractor-sales", <<>>, 503,
                             "Sales data not available. Please try again later.")
          ELSE Respond("tractor-sales", <<>>, 200,
                       DataBody([success |-> TRUE, data |-> sales_data]), FALSE)
    /\ Requested

\* Matches that compares the names as they are
MatchesExactly(company, company_name) == company.company_name = company_name

\* company.company_name.lower() == company_name.lower()
Matches(company, company_name) == Lower(company.company_name) = Lower(company_name)

\* next((company for company in sales_data if ...), None)
FirstMatch(data, company_name) ==
    LET found == {i \in 1..Len(data) : Matches(data[i], company_name)}
    IN  IF found = {} THEN <<>>
        ELSE <<data[CHOOSE i \in found : \A j \in found : i <= j]>>

\* the names the requests ask for
CompanyNames ==
    {"John Deere", "john deere", "KUBOTA", "Kubota", "Mahindra", "massey ferguson",
     "New Holland", "Sonalika"}

\* GET /api/v1/company/{company_name}
get_company_data ==
    \E company_name \in CompanyNames :
        /\ response' =
              IF sales_data = <<>>
              THEN HTTPException("company", <<company_name>>, 503, "Sales data not available")
              ELSE IF FirstMatch(sales_data, company_name) = <<>>
              THEN HTTPException("company", <<company_name>>, 404,
                                 "Company '" \o company_name \o "' not found")
              ELSE Respond("company", <<company_name>>, 200,
                           DataBody(FirstMatch(sales_data, company_name)[1]), FALSE)
        /\ Requested

\* startup_event on a table: the data is loaded from it, or fetched when it
\* has none
startup_event(table) ==
    IF load_from_database(table) # <<>>
    THEN [sales_data |-> load_from_database(table), tractor_sales |-> table, updated |-> FALSE,
          last_update |-> Some(last_updated(load_from_database(table)[1]))]
    ELSE [sales_data |-> UpdatedSales(<<>>, table, 100).sales_data,
          tractor_sales |-> UpdatedSales(<<>>, table, 100).tractor_sales,
          updated |-> TRUE,
          last_update |-> UpdatedSales(<<>>, table, 100).last_update]

-----------------------------------------------------------------------------
(* The client with all three operations, one caller path, and a site that  *)
(* answers with a listing too short to use, a full page, or a failure.     *)

\* a listing page too short to be taken for one
PageSmall == Markup(100, <<Anchor("/brand/x/", "", "Mahindra")>>)

PageA ==
    Markup(600, <<Heading(" Mahindra 575 "),
                  Anchor("/brand/x", "", "Mahindra"),
                  Anchor("/tractor/575/", "", "575 DI"),
                  Table(<<<<Td("Engine"), Td("45HP")>>>>),
                  Img("/a.png")>>)

PageB ==
    Markup(700, <<TitleEl("Sonalika"),
                  Anchor("/tractor-brands/y/", "brand", "Sonalika"),
                  Li("model", <<Anchor("/tractor/745", "", "745 III"), Img("/b.png"),
                                TextNode("Rs 6 lakh")>>)>>)

Init ==
    /\ site = {Ok(PageSmall), Ok(PageA), Failure("Timeout"), Failure("HTTPError")}
    /\ inputs = {"/brand/x"}
    /\ Fresh

Next == Tick \/ CallBrandModels \/ CallModelDetails \/ CallBrands

Spec == Init /\ [][Next]_vars

-----------------------------------------------------------------------------
(* The two operations that take a path: several spellings of one path and  *)
(* a second path, and a site whose pages change between two GETs.          *)

Forms == {"brand/x/", "/brand/x", "/brand/x/"}

InitPaths ==
    /\ site = {Ok(PageA), Ok(PageB)} \cup {Failure(e) : e \in Exceptions}
    /\ inputs = Forms \cup {"/m"}
    /\ Fresh

NextPaths == Tick \/ CallBrandModels \/ CallModelDetails

SpecPaths == InitPaths /\ [][NextPaths]_vars

-----------------------------------------------------------------------------
(* get_brands on every listing of a bounded set: the site serves one page, *)
(* a sequence of up to MaxNodes anchors.                                   *)

\* the documents of up to MaxNodes elements taken from a set
Documents(elements) == UNION {[1..n -> elements] : n \in 0..MaxNodes}

BrandNodes ==
    {Anchor("/brand/x", "", "Mahindra"),
     Anchor(" /brand/x/ ", "", "Swaraj"),
     Anchor("/Tractor-Brands/y/", "", " Sonalika "),
     Anchor("/brand/z", "", "M"),
     Anchor("/about", "brand-card", "Eicher"),
     Anchor("about/", "top brand", "http://ads")}

InitBrands ==
    /\ site \in {{Ok(Markup(MinMarkupLen + 1, nodes))} : nodes \in Documents(BrandNodes)}
    /\ inputs = {}
    /\ Fresh

NextBrands == CallBrands

SpecBrands == InitBrands /\ [][NextBrands]_vars

-----------------------------------------------------------------------------
(* get_brand_models on every brand page of a bounded set.                  *)

ModelNodes ==
    {Anchor("/tractor/575", "", "575 DI"),
     Anchor("/tractor/575", "", "Arjun"),
     Anchor(" /tractor/745/ ", "", " Yuvo "),
     Li("model", <<Anchor("/tractor/575", "", "Novo"), Img("/novo.png"),
                   TextNode(" Rs 7 lakh ")>>),
     Div("model-card", <<Anchor("/about", "", ""), Img("/jivo.png")>>)}

InitModels ==
    /\ site \in {{Ok(Markup(MinMarkupLen + 1, nodes))} : nodes \in Documents(ModelNodes)}
    /\ inputs = {"/brand/x"}
    /\ Fresh

NextModels == CallBrandModels

SpecModels == InitModels /\ [][NextModels]_vars

-----------------------------------------------------------------------------
(* get_model_details on every model page of a bounded set: a table of up   *)
(* to MaxNodes rows, or a run of images longer than the record keeps.      *)

\* how many images more than MaxImages the longest page embeds
MaxExtraImages == 2

SpecRows ==
    {<<Td("Engine"), Td("45HP")>>,
     <<Td(" Engine "), Td("50HP")>>,
     <<Td("PTO"), Td(" ")>>,
     <<Th("Gears"), Td("8F")>>,
     <<Th("Spec"), Th("Value")>>,
     <<TdTable(<<<<Td("Engine"), Td("39HP")>>>>), Td("Lift"), Td("1500kg")>>}

TablePages == {<<Table(rows)>> : rows \in Documents(SpecRows)}

DigitOf == <<"0", "1", "2", "3", "4", "5", "6", "7", "8", "9">>

\* the src attribute of the i-th image of a page, as the markup spells it
SrcOf(i) == " /img/" \o DigitOf[(i \div 10) + 1] \o DigitOf[(i % 10) + 1] \o ".png "

\* a page of n images, after one whose src is empty
ImagePage(n) == <<Img("")>> \o [i \in 1..n |-> Img(SrcOf(i))]

ImagePages == {ImagePage(n) : n \in 0..(MaxImages + MaxExtraImages)}

InitDetails ==
    /\ site \in {{Ok(Markup(MinMarkupLen + 1, nodes))} : nodes \in TablePages \cup ImagePages}
    /\ inputs = {"/tractor/575"}
    /\ Fresh

NextDetails == CallModelDetails

SpecDetails == InitDetails /\ [][NextDetails]_vars

-----------------------------------------------------------------------------
(* get_brands and get_brand_models on pages whose anchors have no text,    *)
(* blank text or padded text.                                              *)

NameNodes ==
    {Anchor("/brand/tractor/a", "", ""),
     Anchor("/brand/tractor/b", "", "   "),
     Anchor("/brand/tractor/c", "", " Yuvo "),
     Anchor("/about", "brand", " "),
     Li("model", <<Anchor("/x", "", "  "), Img("/i.png")>>),
     Li("model brand", <<Anchor("/y", "brand", " Novo")>>)}

InitNames ==
    /\ site \in {{Ok(Markup(MinMarkupLen + 1, nodes))} : nodes \in Documents(NameNodes)}
    /\ inputs = {"/brand/x"}
    /\ Fresh

NextNames == CallBrands \/ CallBrandModels

SpecNames == InitNames /\ [][NextNames]_vars

-----------------------------------------------------------------------------
(* The service: the client was constructed at start-up or it was not, and  *)
(* requests arrive at the three endpoints with the path parameter missing, *)
(* empty or given.                                                         *)

InitHttp ==
    /\ site = {Ok(PageA), Failure("Timeout"), Failure("HTTPError")}
    /\ inputs = {"", "/brand/x"}
    /\ now = 0
    /\ page_cache = <<>>
    /\ brands_cache = <<>>
    /\ models_cache = <<>>
    /\ details_cache = <<>>
    /\ call = NoCall
    /\ ncalls = 0
    /\ returned = [ok \in OpKeys(inputs) |-> <<>>]
    /\ tg_client \in BOOLEAN
    /\ response = NoResponse
    /\ sales_data = <<>>
    /\ tractor_sales = <<>>
    /\ updated = FALSE
    /\ last_update = <<>>
    /\ market_trends = <<>>
    /\ callers = <<>>

NextHttp == api_tg_brands \/ api_tg_brand_models \/ api_tg_model_details

SpecHttp == InitHttp /\ [][NextHttp]_vars

-----------------------------------------------------------------------------
(* The sales API, started on a database file that an earlier process may   *)
(* have left: empty, or with the rows of some companies.                   *)

PriorTables ==
    {<<>>,
     CurrentData(100),
     SubSeq(CurrentData(85), 1, 3),
     <<TractorCompany(2, "Kubota", 400), TractorCompany(1, "John Deere", 900)>>,
     <<TractorCompany(1, "KUBOTA", 500), TractorCompany(2, "Kubota", 400)>>,
     <<TractorCompany(1, "Mahindra", 300)>>,
     <<TractorCompany(3, "Massey Ferguson", 250), TractorCompany(1, "Mahindra", 300)>>}

\* the rows of market_trends that an earlier process may have left
PriorTrends ==
    {<<>>, <<TrendRow("total_daily_sales", "earlier"), TrendRow("avg_revenue", "earlier")>>}

InitSales ==
    /\ site = {}
    /\ inputs = {}
    /\ now = 0
    /\ page_cache = <<>>
    /\ brands_cache = <<>>
    /\ models_cache = <<>>
    /\ details_cache = <<>>
    /\ call = NoCall
    /\ ncalls = 0
    /\ returned = [ok \in OpKeys(inputs) |-> <<>>]
    /\ tg_client = FALSE
    /\ response = NoResponse
    /\ \E table \in PriorTables :
          /\ sales_data = startup_event(table).sales_data
          /\ tractor_sales = startup_event(table).tractor_sales
          /\ updated = startup_event(table).updated
          /\ last_update = startup_event(table).last_update
    /\ market_trends \in PriorTrends
    /\ callers = <<>>

NextSales == update_sales_data \/ get_tractor_sales \/ get_company_data

SpecSales == InitSales /\ [][NextSales]_vars

-----------------------------------------------------------------------------
(* The two operations that take a path, on paths with several leading      *)
(* slashes and on paths that spell a URL.                                  *)

InitUrls ==
    /\ site = {Ok(PageA), Failure("ConnectionError")}
    /\ inputs = {"brand/x", "/brand/x", "//brand/x", "http://evil.example/a",
                 "/https://evil.example/a"}
    /\ Fresh

NextUrls == CallBrandModels \/ CallModelDetails

SpecUrls == InitUrls /\ [][NextUrls]_vars

-----------------------------------------------------------------------------
(* What the claims speak of.                                               *)

RECURSIVE SumGets(_)
SumGets(fetches) == IF fetches = <<>> THEN 0 ELSE Head(fetches).gets + SumGets(Tail(fetches))

\* the network GETs a call issued
GetsOf(c) == SumGets(c.fetches)

\* a page fetch of the call raised
FetchFailed(c) == \E i \in 1..Len(c.fetches) : c.fetches[i].error # <<>>

\* the exception of the call's last page fetch
LastFetchError(c) == c.fetches[Len(c.fetches)].error

\* the result cache of an operation that takes a path
ResultCache(op) == IF op = "get_brand_models" THEN models_cache ELSE details_cache

\* the cache holds an entry for the key that has not expired at time t
HoldsLive(cache, key, t) == \E i \in 1..Len(cache) : cache[i].key = key /\ t < cache[i].exp

\* the cache still holds the entry stored for the key at time s
HoldsSince(cache, key, s) == \E i \in 1..Len(cache) : cache[i].key = key /\ cache[i].exp = s + TTL

\* this step is a call of op
IsCallOf(op) == ncalls' = ncalls + 1 /\ call'.op = op

\* the call c was served the value v without any GET
Served(c, v) == GetsOf(c) = 0 /\ c.outcome = "return" /\ c.result = Some(v)

\* a path that starts with "/" and does not end with "/"
Normalized(p) == StartsWith(p, "/") /\ ~EndsWith(p, "/")

-----------------------------------------------------------------------------
\* C1, as stated: once a call of get_brand_models(p) or get_model_details(p)
\* has returned, every later call for the same p made less than 24 hours
\* afterwards issues no GET and returns the same result, whatever calls were
\* made in between.
C1_CachedWhateverCameBetween ==
    [][\A op \in Operations :
        LET prev == returned[<<op, call'.key>>]
        IN  (/\ IsCallOf(op)
             /\ prev # <<>>
             /\ prev[1].arg = call'.arg
             /\ now - prev[1].t < TTL)
            => Served(call', prev[1].res)]_vars

\* C1, amended: the later call issues no GET and returns the same result when
\* it is made less than 24 hours after the entry was stored (the entry the
\* earlier call stored or read) and the cache still holds that entry (its
\* size limit has not evicted it).
C1_CachedWhileEntryHeld ==
    [][\A op \in Operations :
        LET prev == returned[<<op, call'.key>>]
        IN  (/\ IsCallOf(op)
             /\ prev # <<>>
             /\ prev[1].arg = call'.arg
             /\ now - prev[1].t < TTL
             /\ now - prev[1].s < TTL
             /\ HoldsSince(ResultCache(op), call'.key, prev[1].s))
            => Served(call', prev[1].res)]_vars

\* C1's case: a call served, without a GET, an entry stored half a day before
C1_Witness ==
    /\ call.op \in Operations
    /\ call.outcome = "return"
    /\ GetsOf(call) = 0
    /\ returned[<<call.op, call.key>>] # <<>>
    /\ returned[<<call.op, call.key>>][1].t = now
    /\ returned[<<call.op, call.key>>][1].s + HalfDay = now
    /\ returned[<<call.op, call.key>>][1].by = call.arg

-----------------------------------------------------------------------------
\* C2: get_brands returns an empty sequence, and parses nothing, whenever
\* each of the three listing paths fails to fetch or yields markup of 500
\* characters or fewer.
C2_NoBrandsFromUndersizedMarkup ==
    (/\ call.op = "get_brands"
     /\ Len(call.fetches) = 3
     /\ \A i \in 1..3 : \/ call.fetches[i].error # <<>>
                        \/ call.fetches[i].html[1].size <= 500)
    => (call.outcome = "return" /\ call.result = Some(<<>>) /\ call.parsed = <<>>)

-----------------------------------------------------------------------------
\* C3: when the page fetch of get_brand_models or get_model_details raises,
\* the operation raises that same exception and returns nothing.
C3_FetchFailurePropagates ==
    (call.op \in Operations /\ FetchFailed(call))
    => (/\ call.outcome = "raise"
        /\ <<call.error>> = LastFetchError(call)
        /\ call.result = <<>>)

\* C3's case: get_model_details ended with the HTTPError of its fetch
C3_Witness ==
    /\ call.op = "get_model_details"
    /\ FetchFailed(call)
    /\ call.outcome = "raise"
    /\ call.error = "HTTPError"

-----------------------------------------------------------------------------
-----------------------------------------------------------------------------
\* C5, as stated: a call of any of the three operations issues at most one
\* GET.
C5_AtMostOneGet == call.op # "none" => GetsOf(call) <= 1

\* C5, amended: a call of get_brand_models or get_model_details issues at
\* most one GET; a call of get_brands issues at most three, one for each
\* listing path it tries.
C5_AtMostOneGetPerPath ==
    /\ call.op \in Operations => GetsOf(call) <= 1
    /\ call.op = "get_brands" =>
        /\ GetsOf(call) <= 3
        /\ \A i \in 1..Len(call.fetches) : call.fetches[i].gets <= 1
        /\ \A i, j \in 1..Len(call.fetches) :
              call.fetches[i].url = call.fetches[j].url => i = j

\* C5's case: one call of get_brands issued three GETs
C5_Witness == call.op = "get_brands" /\ GetsOf(call) = 3

-----------------------------------------------------------------------------
\* C6, as stated: a call of get_brand_models(p) or get_model_details(p)
\* that finds no live entry for p in its result cache issues exactly one GET.
C6_MissIsOneGet ==
    [][\A op \in Operations :
        (IsCallOf(op) /\ ~HoldsLive(ResultCache(op), call'.key, now))
        => GetsOf(call') = 1]_vars

\* C6, amended: such a call issues exactly one GET when the page cache holds
\* no live entry for the page either, and none when it does.
C6_MissIsOneGetUnlessPageCached ==
    [][\A op \in Operations :
        (IsCallOf(op) /\ ~HoldsLive(ResultCache(op), call'.key, now))
        => /\ Len(call'.fetches) = 1
           /\ GetsOf(call') =
                IF HoldsLive(page_cache, call'.fetches[1].url, now) THEN 0 ELSE 1]_vars

\* C6's case: 24 hours after the first calls, a call missed and issued one GET
C6_Witness ==
    /\ call.op \in Operations
    /\ now = TTL
    /\ ncalls >= 2
    /\ GetsOf(call) = 1
    /\ call.outcome = "return"

-----------------------------------------------------------------------------
\* C7: "brand/x/", "/brand/x" and "/brand/x/" map to the one cache key
\* "/brand/x": after a successful call with one form, a call with another
\* form while that entry is live is served the same result without a fetch.
C7_FormsShareOneEntry ==
    [][\A op \in Operations :
        LET prev == returned[<<op, "/brand/x">>]
        IN  (/\ IsCallOf(op)
             /\ call'.arg \in Forms
             /\ prev # <<>>
             /\ prev[1].arg \in Forms \ {call'.arg}
             /\ HoldsLive(ResultCache(op), "/brand/x", now))
            => (call'.key = "/brand/x" /\ Served(call', prev[1].res))]_vars

\* C7's case: "brand/x/" was served the entry that "/brand/x/" had stored
C7_Witness ==
    /\ call.op = "get_brand_models"
    /\ call.arg = "brand/x/"
    /\ call.key = "/brand/x"
    /\ call.fetches = <<>>
    /\ call.outcome = "return"
    /\ returned[<<call.op, "/brand/x">>] # <<>>
    /\ returned[<<call.op, "/brand/x">>][1].by = "/brand/x/"

-----------------------------------------------------------------------------
\* C8: every key of the models cache and of the details cache, and the path
\* of every Brand, Model and ModelDetail returned, starts with "/" and does
\* not end with "/".
C8_PathsNormalized ==
    /\ \A k \in TTLKeys(models_cache) \cup TTLKeys(details_cache) : Normalized(k)
    /\ (call.op \in {"get_brands", "get_brand_models"} /\ call.outcome = "return")
        => \A i \in 1..Len(call.result[1]) : Normalized(call.result[1][i].path)
    /\ (call.op = "get_model_details" /\ call.outcome = "return")
        => Normalized(call.result[1].path)

-----------------------------------------------------------------------------
\* the one page the site serves in SpecBrands and SpecModels
ThePage == (CHOOSE r \in site : TRUE).body

\* the links get_brands keeps of the page: those its heuristics select and
\* its junk filter lets through, in document order
IsKept(l) == ~IsJunkName(l.name)
KeptLinks == SelectSeq(BrandLinks(Flatten(ThePage.nodes)), IsKept)

LinkPath(l) == BrandKey(l.href)

\* the index of the first kept link of a path
FirstLink(p) ==
    CHOOSE i \in 1..Len(KeptLinks) :
        /\ LinkPath(KeptLinks[i]) = p
        /\ \A j \in 1..(i - 1) : LinkPath(KeptLinks[j]) # p

\* C9: get_brands returns no two brands with the same path; a brand carries
\* the name of the first kept anchor of its path, and the brands are in the
\* order of those first anchors.
C9_BrandsFirstWins ==
    (call.op = "get_brands" /\ call.outcome = "return") =>
        LET brands == call.result[1]
        IN  /\ \A i, j \in 1..Len(brands) : brands[i].path = brands[j].path => i = j
            /\ {brands[i].path : i \in 1..Len(brands)}
                 = {LinkPath(KeptLinks[i]) : i \in 1..Len(KeptLinks)}
            /\ \A i \in 1..Len(brands) :
                 brands[i].name = KeptLinks[FirstLink(brands[i].path)].name
            /\ \A i, j \in 1..Len(brands) :
                 i < j => FirstLink(brands[i].path)
                            < FirstLink(brands[j].path)

\* C9's case: two kept anchors of one path with different names, and the
\* brand returned for it
C9_Witness ==
    /\ call.op = "get_brands"
    /\ call.outcome = "return"
    /\ \E i, j \in 1..Len(KeptLinks) :
          /\ i < j
          /\ LinkPath(KeptLinks[i]) = LinkPath(KeptLinks[j])
          /\ KeptLinks[i].name # KeptLinks[j].name
          /\ \E b \in 1..Len(call.result[1]) :
                /\ call.result[1][b].path = LinkPath(KeptLinks[i])
                /\ call.result[1][b].name = KeptLinks[i].name

-----------------------------------------------------------------------------
\* the candidate entries of the page, in document order
Candidates == ModelCandidates(Flatten(ThePage.nodes))

\* the index of the last candidate of a path
LastCandidate(p) ==
    CHOOSE i \in 1..Len(Candidates) :
        /\ Candidates[i].path = p
        /\ \A j \in (i + 1)..Len(Candidates) : Candidates[j].path # p

\* C10: get_brand_models returns no two models with the same path, and the
\* entry returned for a path is the last candidate of that path.
C10_ModelsLastWins ==
    (call.op = "get_brand_models" /\ call.outcome = "return") =>
        LET models == call.result[1]
        IN  /\ \A i, j \in 1..Len(models) : models[i].path = models[j].path => i = j
            /\ {models[i].path : i \in 1..Len(models)}
                 = {Candidates[i].path : i \in 1..Len(Candidates)}
            /\ \A i \in 1..Len(models) :
                 models[i] = Candidates[LastCandidate(models[i].path)]

\* C10's case: two candidates of one path that differ, and the entry returned
C10_Witness ==
    /\ call.op = "get_brand_models"
    /\ call.outcome = "return"
    /\ \E i, j \in 1..Len(Candidates) :
          /\ i < j
          /\ Candidates[i].path = Candidates[j].path
          /\ Candidates[i] # Candidates[j]
          /\ \A k \in (j + 1)..Len(Candidates) : Candidates[k].path # Candidates[j].path
          /\ \E m \in 1..Len(call.result[1]) : call.result[1][m] = Candidates[j]

-----------------------------------------------------------------------------
\* the last request went to an endpoint that takes the path parameter
PathEndpoint == response.endpoint \in {"brand_models", "model_details"}

\* C11: a request to brand_models or model_details whose path parameter is
\* missing or empty is answered with a 4xx status and never with a 5xx
\* one, in every state of the service, and no client operation is invoked.
C11_MissingPathIs4xx ==
    (PathEndpoint /\ ArgsGet(response.query, "") = "")
    => (response.status \in 400..499 /\ ~response.invoked)

-----------------------------------------------------------------------------
\* a request has been answered
IsAnswered == response.endpoint # "none"

\* the answer of a service that has no client
Is503 == response.status = 503 /\ response.body.kind = "error"

\* the answer when the invoked operation raised
Is500 ==
    /\ response.status = 500
    /\ response.body = ErrorBody(Str(call.error))
    /\ call.outcome = "raise"

\* the answer when the invoked operation returned
Is200 ==
    /\ response.status = 200
    /\ call.outcome = "return"
    /\ response.body = DataBody(call.result[1])

\* C12, as stated: without a client every request is answered 503 with an
\* error body, for the life of the process; with a client the answer is 500
\* with the exception's message when the invoked operation raised, and 200
\* with the operation's result otherwise.
C12_Answers503Or500Or200 ==
    /\ [](IsAnswered =>
            /\ ~tg_client => Is503
            /\ (tg_client /\ response.invoked /\ call.outcome = "raise") => Is500
            /\ (tg_client /\ ~(response.invoked /\ call.outcome = "raise")) => Is200)
    /\ [][tg_client' = tg_client]_vars

\* C12, amended: as above, but with a client a request to brand_models or
\* model_details whose path parameter is missing or empty is answered 400
\* with an error body and invokes nothing; 500 and 200 are the answers when
\* an operation was invoked.
C12_Answers503Or400Or500Or200 ==
    /\ [](IsAnswered =>
            /\ ~tg_client => (Is503 /\ ~response.invoked)
            /\ (tg_client /\ PathEndpoint /\ ArgsGet(response.query, "") = "") =>
                    (response.status = 400 /\ response.body.kind = "error" /\ ~response.invoked)
            /\ (tg_client /\ ~(PathEndpoint /\ ArgsGet(response.query, "") = "")) =>
                    (response.invoked /\ (Is500 \/ Is200)))
    /\ [][tg_client' = tg_client]_vars

\* C12's case: get_brand_models raised a timeout behind the endpoint, which
\* answered 500 with the timeout's message
C12_Witness ==
    /\ tg_client
    /\ response.endpoint = "brand_models"
    /\ response.invoked
    /\ call.op = "get_brand_models" /\ call.outcome = "raise" /\ call.error = "Timeout"
    /\ response.status = 500
    /\ response.body.error = "Read timed out."

-----------------------------------------------------------------------------
\* a cell that holds a table
HoldsTable(cell) == cell.inner # <<>>

\* the tables that stand in the cells of a row, each to be read from its
\* first row
TablesToRead(cells) ==
    [i \in 1..Len(SelectSeq(cells, HoldsTable)) |->
        [rows |-> SelectSeq(cells, HoldsTable)[i].inner, k |-> 1]]

RECURSIVE OwnRows(_)
\* the rows of a page in document order, each with the rows of the table it
\* is a row of; todo holds the tables still to be read, each from its k-th
\* row on, the innermost first
OwnRows(todo) ==
    IF todo = <<>> THEN <<>>
    ELSE LET rows == Head(todo).rows
             k == Head(todo).k
         IN  IF k > Len(rows) THEN OwnRows(Tail(todo))
             ELSE <<[row |-> rows[k], of |-> rows]>>
                  \o OwnRows(TablesToRead(rows[k]) \o <<[rows |-> rows, k |-> k + 1]>>
                             \o Tail(todo))

\* the cells of a row as its own table has them read
Reading(r) == RowCells(Table(r.of), r.row)

\* a two-cell row with a key and a value
IsAccepted(r) ==
    /\ Len(Reading(r)) = 2
    /\ CellText(Reading(r)[1]) # ""
    /\ CellText(Reading(r)[2]) # ""

\* the accepted rows of the page in document order
AcceptedRows ==
    SelectSeq(OwnRows(<<[rows |-> ThePage.nodes[1].rows, k |-> 1]>>), IsAccepted)

KeyOf(r) == CellText(Reading(r)[1])
ValueOf(r) == CellText(Reading(r)[2])

\* the index of the last accepted row of a key
LastRow(key) ==
    CHOOSE i \in 1..Len(AcceptedRows) :
        /\ KeyOf(AcceptedRows[i]) = key
        /\ \A j \in (i + 1)..Len(AcceptedRows) : KeyOf(AcceptedRows[j]) # key

\* C13: the spec mapping of get_model_details holds each key once, and for
\* a key the value of the last accepted two-cell row of that key in
\* document order.
C13_SpecsLastRowWins ==
    (call.op = "get_model_details" /\ call.outcome = "return") =>
        LET specs == call.result[1].specs
        IN  /\ \A i, j \in 1..Len(specs) : specs[i].key = specs[j].key => i = j
            /\ {specs[i].key : i \in 1..Len(specs)}
                 = {KeyOf(AcceptedRows[i]) : i \in 1..Len(AcceptedRows)}
            /\ \A i \in 1..Len(specs) :
                 specs[i].value = ValueOf(AcceptedRows[LastRow(specs[i].key)])

-----------------------------------------------------------------------------
\* the images of the page that carry a source, in document order
PageImages == SelectSeq(Flatten(ThePage.nodes), HasNonEmptySrc)

\* C14: the images of every record get_model_details returns, extracted or
\* served from the cache, are at most 10 and are the first min(10, n) image
\* sources of the page in document order.
C14_ImagesAreFirstTen ==
    (call.op = "get_model_details" /\ call.outcome = "return") =>
        LET images == call.result[1].images
        IN  /\ Len(images) <= 10
            /\ Len(images) = (IF Len(PageImages) < 10 THEN Len(PageImages) ELSE 10)
            /\ \A i \in 1..Len(images) : images[i] = Strip(PageImages[i].src[1])

\* C14's case: a page of more than 10 images, and the record of 10 of them
\* served from the cache
C14_Witness ==
    /\ call.op = "get_model_details"
    /\ call.outcome = "return"
    /\ call.fetches = <<>>
    /\ Len(PageImages) > 10
    /\ Len(call.result[1].images) = 10
    /\ call.result[1].images[10] = "/img/10.png"

-----------------------------------------------------------------------------
\* a text that is empty or whitespace only
IsBlank(text) == Strip(text) = ""

\* the anchors of the page
PageAnchors == SelectSeq(Flatten(ThePage.nodes), IsAnchorWithHref)

\* C15: every brand get_brands returns and every model get_brand_models
\* returns has a name that is not empty and not whitespace only, the text of
\* an anchor of the page; an anchor of blank text gives no record.
C15_NamesNotBlank ==
    (call.op \in {"get_brands", "get_brand_models"} /\ call.outcome = "return") =>
        \A i \in 1..Len(call.result[1]) :
            /\ ~IsBlank(call.result[1][i].name)
            /\ \E a \in 1..Len(PageAnchors) :
                  /\ ~IsBlank(PageAnchors[a].text)
                  /\ Strip(PageAnchors[a].text) = call.result[1][i].name

\* C15's case: the page has a brand anchor of blank text next to one with
\* text, and get_brands returned the one brand
C15_Witness ==
    /\ call.op = "get_brands"
    /\ call.outcome = "return"
    /\ Len(call.result[1]) = 1
    /\ call.result[1][1].name = "Yuvo"
    /\ \E a \in 1..Len(PageAnchors) :
          PageAnchors[a].text = "   " /\ IsBrandHref(PageAnchors[a].href[1])

-----------------------------------------------------------------------------
\* the GETs a call issued for a URL
RECURSIVE GetsFor(_, _)
GetsFor(fetches, url) ==
    IF fetches = <<>> THEN 0
    ELSE (IF Head(fetches).url = url THEN Head(fetches).gets ELSE 0)
         + GetsFor(Tail(fetches), url)

\* C16: within one call of an operation no URL is requested more than once,
\* and once a GET for a URL has failed the call issues no further GET for
\* that URL.
C16_NoRetry ==
    /\ \A i \in 1..Len(call.fetches) : GetsFor(call.fetches, call.fetches[i].url) <= 1
    /\ \A i, j \in 1..Len(call.fetches) :
          (i < j /\ call.fetches[i].error # <<>> /\ call.fetches[j].url = call.fetches[i].url)
          => call.fetches[j].gets = 0

\* C16's case: get_brands met a failure on each listing path and sent one
\* GET to each of the three URLs
C16_Witness ==
    /\ call.op = "get_brands"
    /\ Len(call.fetches) = 3
    /\ \A i \in 1..3 : call.fetches[i].error # <<>> /\ call.fetches[i].gets = 1
    /\ \A i, j \in 1..3 : call.fetches[i].url = call.fetches[j].url => i = j

-----------------------------------------------------------------------------
\* this step is the answer to a request to an endpoint of the sales API
IsRequestTo(endpoint) == response' # response /\ response'.endpoint = endpoint

\* five companies ranked 1 to 5 in that order, one per configured company,
\* John Deere first
IsTopFive(data) ==
    /\ Len(data) = 5
    /\ \A i \in 1..5 : data[i].rank = i
    /\ {data[i].company_name : i \in 1..5}
         = {TRACTOR_COMPANIES[i].name : i \in 1..Len(TRACTOR_COMPANIES)}
    /\ data[1].company_name = "John Deere"

\* C17: once update_sales_data has run to completion, GET
\* /api/v1/tractor-sales answers 200 with success=true and exactly 5
\* companies ranked 1, 2, 3, 4, 5 in that order, John Deere ranked 1.
C17_UpdatedSalesAreTopFive ==
    [][(updated /\ IsRequestTo("tractor-sales")) =>
          /\ response'.status = 200
          /\ response'.body.kind = "data"
          /\ response'.body.data[1].success
          /\ IsTopFive(response'.body.data[1].data)]_vars

-----------------------------------------------------------------------------
\* the loaded companies whose name equals the name ignoring letter case
SameNameIgnoringCase(name) ==
    {sales_data[i] : i \in {j \in 1..Len(sales_data) :
                              Lower(sales_data[j].company_name) = Lower(name)}}

\* C18: when sales data is loaded, GET /api/v1/company/{name} answers 200
\* with the company whose name equals the name ignoring letter case, 404
\* when no loaded company matches, and leaves the sales data as it was.
C18_CompanyLookup ==
    [][(IsRequestTo("company") /\ sales_data # <<>>) =>
          LET name == response'.query[1]
          IN  /\ SameNameIgnoringCase(name) # {} =>
                    /\ response'.status = 200
                    /\ response'.body.kind = "data"
                    /\ response'.body.data[1] \in SameNameIgnoringCase(name)
              /\ SameNameIgnoringCase(name) = {} => response'.status = 404
              /\ sales_data' = sales_data
              /\ tractor_sales' = tractor_sales]_vars

\* C18's case: the request for "john deere" was answered with the company
\* John Deere
C18_Witness ==
    /\ response.endpoint = "company"
    /\ response.query = <<"john deere">>
    /\ response.status = 200
    /\ response.body.data[1].company_name = "John Deere"
    /\ sales_data # <<>>

-----------------------------------------------------------------------------
\* the absolute URL of a site-relative path
AbsoluteUrl(path) == base_url \o path

\* C19: the page cache is keyed by the resolved absolute URL and holds the
\* markup of every successful GET for 24 hours; a call of get_brand_models
\* or get_model_details that misses its result cache while the page entry
\* is live parses the stored markup and issues no GET, whichever operation
\* had the page fetched.
C19_SharedPageCache ==
    [][\A op \in Operations :
        IsCallOf(op) =>
            LET url == AbsoluteUrl(call'.key)
            IN  /\ (/\ ~HoldsLive(ResultCache(op), call'.key, now)
                     /\ HoldsLive(page_cache, url, now))
                    => /\ GetsOf(call') = 0
                       /\ call'.outcome = "return"
                       /\ call'.parsed = <<TTLValue(page_cache, url)>>
                /\ \A i \in 1..Len(call'.fetches) :
                      (call'.fetches[i].gets = 1 /\ call'.fetches[i].error = <<>>)
                      => /\ call'.fetches[i].url = url
                         /\ \E k \in 1..Len(page_cache') :
                               page_cache'[k] = [key |-> url, val |-> call'.fetches[i].html[1],
                                                 exp |-> now + TTL]]_vars

\* C19's case: get_model_details parsed the page that get_brand_models had
\* fetched for the same path, without a GET
C19_Witness ==
    /\ call.op = "get_model_details"
    /\ call.outcome = "return"
    /\ Len(call.fetches) = 1
    /\ call.fetches[1].gets = 0
    /\ HoldsLive(models_cache, call.key, now)
    /\ returned[<<"get_brand_models", call.key>>] # <<>>

-----------------------------------------------------------------------------
\* C20: _fetch requests an input that has a scheme as it is, and for every
\* other input the base origin, one "/" and the input without its leading
\* slashes, so that the URL requested lies under the base origin.  (The
\* input of _fetch is the cache key of the call.)
C20_UrlUnderBaseOrigin ==
    (call.op \in Operations /\ Len(call.fetches) = 1) =>
        LET input == call.key
            url == call.fetches[1].url
        IN  /\ HasScheme(input) => url = input
            /\ ~HasScheme(input) =>
                  /\ url = base_url \o "/" \o LStripSlash(input)
                  /\ StartsWith(url, base_url \o "/")

-----------------------------------------------------------------------------
\* the URLs of the candidate listing paths, in the order the claim gives
CandidateUrls ==
    <<"https://tractorguru.in/tractor-brands",
      "https://tractorguru.in/tractor-brand",
      "https://tractorguru.in/tractor/brands">>

\* the fetch succeeded with markup longer than 500 characters
IsLongMarkup(f) == f.error = <<>> /\ f.html[1].size > 500

\* C21: a call of get_brands that finds no live entry in the brands cache
\* fetches the candidate paths /tractor-brands, /tractor-brand and
\* /tractor/brands in that order, starting with the first; it goes on to the
\* next candidate after every fetch that failed or gave markup of 500
\* characters or fewer, and a fetch that succeeded with longer markup is its
\* last fetch, whose markup is the markup it parses.
C21_StopsAtFirstUsableCandidate ==
    [][(IsCallOf("get_brands") /\ ~HoldsLive(brands_cache, "brands", now)) =>
          LET fetches == call'.fetches
          IN  /\ Len(fetches) \in 1..3
              /\ \A i \in 1..Len(fetches) : fetches[i].url = CandidateUrls[i]
              /\ \A i \in 1..Len(fetches) :
                    IsLongMarkup(fetches[i]) =>
                        (i = Len(fetches) /\ call'.parsed = fetches[i].html)
              /\ ~IsLongMarkup(fetches[Len(fetches)]) => Len(fetches) = 3]_vars

\* C21's case: the first listing was too short, the second was long enough,
\* and get_brands parsed the second without asking for the third
C21_Witness ==
    /\ call.op = "get_brands"
    /\ Len(call.fetches) = 2
    /\ call.fetches[1].error = <<>> /\ call.fetches[1].html[1].size <= 500
    /\ call.fetches[1].gets = 1
    /\ IsLongMarkup(call.fetches[2])
    /\ call.parsed = call.fetches[2].html

-----------------------------------------------------------------------------
\* an anchor the primary heuristic finds: it has text and its href has the
\* pattern of a brand page
IsPrimaryAnchor(el) ==
    IsAnchorWithHref(el) /\ GetText(el) # "" /\ IsBrandHref(Strip(el.href[1]))

\* an anchor the fallback heuristic finds: its class contains "brand"
IsFallbackAnchor(el) ==
    IsAnchorWithHref(el) /\ GetText(el) # "" /\ Contains(el.cls, "brand")

PrimaryAnchors == SelectSeq(Flatten(ThePage.nodes), IsPrimaryAnchor)

FallbackAnchors == SelectSeq(Flatten(ThePage.nodes), IsFallbackAnchor)

\* the brand carries the text and the path of one of the anchors
ComesFrom(brand, anchors) ==
    \E i \in 1..Len(anchors) :
        /\ brand.name = GetText(anchors[i])
        /\ brand.path = BrandKey(Strip(anchors[i].href[1]))

\* C22: when the primary heuristic found an anchor, every brand get_brands
\* returns comes from an anchor the primary heuristic found, and none is
\* returned when the junk filter drops them all; a brand comes from the
\* fallback heuristic only when the primary heuristic found no anchor.
C22_FallbackOnlyWithoutPrimary ==
    (call.op = "get_brands" /\ call.outcome = "return") =>
        LET brands == call.result[1]
        IN  /\ PrimaryAnchors # <<>> =>
                 /\ \A i \in 1..Len(brands) : ComesFrom(brands[i], PrimaryAnchors)
                 /\ (\A j \in 1..Len(PrimaryAnchors) : IsJunkName(GetText(PrimaryAnchors[j])))
                      => brands = <<>>
            /\ PrimaryAnchors = <<>> =>
                 \A i \in 1..Len(brands) : ComesFrom(brands[i], FallbackAnchors)

\* C22's case: the only anchor the primary heuristic found was dropped as
\* junk, the page had a card the filter would keep, and no brand was returned
C22_Witness ==
    /\ call.op = "get_brands"
    /\ call.outcome = "return"
    /\ Len(PrimaryAnchors) = 1
    /\ IsJunkName(GetText(PrimaryAnchors[1]))
    /\ \E j \in 1..Len(FallbackAnchors) : ~IsJunkName(GetText(FallbackAnchors[j]))
    /\ call.result[1] = <<>>

-----------------------------------------------------------------------------
\* C23: every value returned by get_brands, get_brand_models or
\* get_model_details at time t was extracted from markup whose GET went out
\* less than 24 hours before t.
C23_ResultsFresh ==
    \A ok \in DOMAIN returned :
        returned[ok] # <<>> => returned[ok][1].t - returned[ok][1].got < TTL

-----------------------------------------------------------------------------
\* the contents of a cache: its keys, each with its value and its expiry
Contents(cache) == {cache[i] : i \in 1..Len(cache)}

\* this step is a call that finds a live entry for its key in its result cache
IsServedCall ==
    \/ IsCallOf("get_brands") /\ HoldsLive(brands_cache, "brands", now)
    \/ \E op \in Operations : IsCallOf(op) /\ HoldsLive(ResultCache(op), call'.key, now)

\* C24: get_brand_models leaves the brands and details caches as they are,
\* get_model_details the brands and models caches, get_brands the models and
\* details caches; and a call served from its result cache leaves the contents
\* of all four caches as they are.
C24_CachesIndependent ==
    [][/\ IsCallOf("get_brand_models") =>
            (brands_cache' = brands_cache /\ details_cache' = details_cache)
       /\ IsCallOf("get_model_details") =>
            (brands_cache' = brands_cache /\ models_cache' = models_cache)
       /\ IsCallOf("get_brands") =>
            (models_cache' = models_cache /\ details_cache' = details_cache)
       /\ IsServedCall =>
            /\ Contents(page_cache') = Contents(page_cache)
            /\ Contents(brands_cache') = Contents(brands_cache)
            /\ Contents(models_cache') = Contents(models_cache)
            /\ Contents(details_cache') = Contents(details_cache)]_vars

\* C24's case: get_brands was served from the brands cache while the page
\* cache and the models cache held entries
C24_Witness ==
    /\ call.op = "get_brands"
    /\ call.outcome = "return"
    /\ call.fetches = <<>>
    /\ page_cache # <<>>
    /\ brands_cache # <<>>
    /\ models_cache # <<>>

-----------------------------------------------------------------------------
\* C25: when the page fetch of get_brand_models(p) or get_model_details(p)
\* raises, the step leaves the page, brands, models and details caches as
\* they were; and the next call for p's key, when it is a call of the same
\* operation or finds no live entry in its result cache, issues one GET.
C25_FailuresNotCached ==
    [][\A op \in Operations :
        /\ (IsCallOf(op) /\ FetchFailed(call')) =>
              /\ page_cache' = page_cache
              /\ brands_cache' = brands_cache
              /\ models_cache' = models_cache
              /\ details_cache' = details_cache
        /\ (/\ call.op \in Operations
            /\ FetchFailed(call)
            /\ IsCallOf(op)
            /\ call'.key = call.key
            /\ (op = call.op \/ ~HoldsLive(ResultCache(op), call'.key, now)))
           => GetsOf(call') = 1]_vars

\* C25's case: a page fetch raised while the page cache and the models
\* cache held the entries of an earlier call, and both still hold them
C25_Witness ==
    /\ call.op = "get_brand_models"
    /\ FetchFailed(call)
    /\ call.outcome = "raise"
    /\ page_cache # <<>>
    /\ models_cache # <<>>
    /\ \A i \in 1..Len(models_cache) : models_cache[i].key # call.key

-----------------------------------------------------------------------------
(* Two callers inside the same operation at the same time (the threads of  *)
(* the server that wraps the client), on one client and one path.  A       *)
(* caller takes one step per cache access and per GET.  The client holds   *)
(* no lock, and TTLCache takes none: cache[key] = value for a key the      *)
(* cache does not hold is two steps, the first of which puts the key into  *)
(* the cache's table of links and the second of which gives the link its   *)
(* time of expiry and its place in the order.  Between the two, a look-up  *)
(* of that key by the other caller compares the clock with an expiry that  *)
(* is not set (TypeError), and a store of that key by the other caller     *)
(* replaces the value and then unlinks a link that has no place yet        *)
(* (AttributeError).                                                       *)

Threads == {1, 2}

\* a caller at the first line of the operation
Entering(op, p) ==
    [pc |-> "cached_check", op |-> op, arg |-> p, key |-> CacheKey(p),
     url |-> ResolveUrl(CacheKey(p)), gets |-> 0, html |-> <<>>, pending |-> <<>>,
     outcome |-> "none", error |-> "", result |-> <<>>]

\* the caller leaves the operation with an exception
Raising(c, exception) ==
    [callers EXCEPT ![c].pc = "done", ![c].outcome = "raise", ![c].error = exception]

\* the caller goes on to its next step
Goto(c, pc) == [callers EXCEPT ![c].pc = pc]

\* another caller is between the two steps of storing this key in the cache
\* that is written at step pc
Unlinked(c, pc, key) ==
    \E d \in Threads \ {c} :
        /\ callers[d].pc = pc
        /\ (IF pc = "page_link" THEN callers[d].url ELSE callers[d].key) = key

\* the value that waits for its link is replaced
Overwritten(c, pc, value) ==
    [d \in Threads |->
        IF d = c THEN Raising(c, "AttributeError")[c]
        ELSE IF callers[d].pc = pc THEN [callers[d] EXCEPT !.pending = Some(value)]
        ELSE callers[d]]

\* the extraction of the caller's operation
Extract(op, html, key) ==
    IF op = "get_brand_models" THEN ExtractModels(html) ELSE ExtractDetails(html, key)

ResultMaxSize(op) == IF op = "get_brand_models" THEN ModelsMaxSize ELSE DetailsMaxSize

\* the result cache of the operation becomes cache, the other stays
ResultCacheBecomes(op, cache) ==
    IF op = "get_brand_models"
    THEN models_cache' = cache /\ details_cache' = details_cache
    ELSE details_cache' = cache /\ models_cache' = models_cache

\* what a step of a caller leaves alone
Outside ==
    UNCHANGED <<now, brands_cache, site, inputs, ncalls, call, returned, tg_client, response,
                salesvars>>

\* "if cache_key in self._models_cache" / "... in self._details_cache"
CachedCheck(c) ==
    /\ callers[c].pc = "cached_check"
    /\ callers' =
          IF Unlinked(c, "result_link", callers[c].key) THEN Raising(c, "TypeError")
          ELSE IF TTLContains(ResultCache(callers[c].op), callers[c].key, now)
          THEN Goto(c, "cached_return")
          ELSE Goto(c, "page_check")
    /\ UNCHANGED <<page_cache, models_cache, details_cache>>
    /\ Outside

\* "return self._models_cache[cache_key]" / "... self._details_cache[cache_key]"
CachedReturn(c) ==
    /\ callers[c].pc = "cached_return"
    /\ IF TTLContains(ResultCache(callers[c].op), callers[c].key, now)
       THEN /\ callers' = [callers EXCEPT
                             ![c].pc = "done", ![c].outcome = "return",
                             ![c].result = Some(TTLValue(ResultCache(callers[c].op),
                                                         callers[c].key))]
            /\ ResultCacheBecomes(callers[c].op,
                                  TTLTouch(ResultCache(callers[c].op), callers[c].key))
       ELSE /\ callers' = Raising(c, "KeyError")
            /\ UNCHANGED <<models_cache, details_cache>>
    /\ UNCHANGED page_cache
    /\ Outside

\* _fetch: "if url in self._page_cache"
PageCheck(c) ==
    /\ callers[c].pc = "page_check"
    /\ callers' =
          IF Unlinked(c, "page_link", callers[c].url) THEN Raising(c, "TypeError")
          ELSE IF TTLContains(page_cache, callers[c].url, now) THEN Goto(c, "page_return")
          ELSE Goto(c, "session_get")
    /\ UNCHANGED <<page_cache, models_cache, details_cache>>
    /\ Outside

\* _fetch: "return self._page_cache[url]"
PageReturn(c) ==
    /\ callers[c].pc = "page_return"
    /\ IF TTLContains(page_cache, callers[c].url, now)
       THEN /\ callers' = [callers EXCEPT
                             ![c].pc = "result_store",
                             ![c].html = Some(TTLValue(page_cache, callers[c].url))]
            /\ page_cache' = TTLTouch(page_cache, callers[c].url)
       ELSE /\ callers' = Raising(c, "KeyError")
            /\ UNCHANGED page_cache
    /\ UNCHANGED <<models_cache, details_cache>>
    /\ Outside

\* _fetch: session.get, raise_for_status, response.text
SessionGet(c) ==
    /\ callers[c].pc = "session_get"
    /\ \E resp \in site :
          callers' =
             IF resp.status # "ok"
             THEN [Raising(c, resp.status) EXCEPT ![c].gets = @ + 1]
             ELSE [callers EXCEPT ![c].pc = "page_store", ![c].gets = @ + 1,
                                  ![c].html = Some(resp.body)]
    /\ UNCHANGED <<page_cache, models_cache, details_cache>>
    /\ Outside

\* _fetch: "self._page_cache[url] = html", up to the new link
PageStore(c) ==
    /\ callers[c].pc = "page_store"
    /\ IF Unlinked(c, "page_link", callers[c].url)
       THEN /\ callers' = Overwritten(c, "page_link", callers[c].html[1])
            /\ UNCHANGED page_cache
       ELSE IF callers[c].url \in TTLKeys(TTLExpire(page_cache, now))
       THEN /\ callers' = Goto(c, "result_store")
            /\ page_cache' = TTLSet(page_cache, callers[c].url, callers[c].html[1], now,
                                    PageMaxSize)
       ELSE /\ callers' = [callers EXCEPT ![c].pc = "page_link", ![c].pending = callers[c].html]
            /\ page_cache' = TTLEvict(TTLExpire(page_cache, now), PageMaxSize)
    /\ UNCHANGED <<models_cache, details_cache>>
    /\ Outside

\* _fetch: "self._page_cache[url] = html", the link gets its expiry and place
PageLink(c) ==
    /\ callers[c].pc = "page_link"
    /\ page_cache' = Append(page_cache, [key |-> callers[c].url, val |-> callers[c].pending[1],
                                         exp |-> now + TTL])
    /\ callers' = [callers EXCEPT ![c].pc = "result_store", ![c].pending = <<>>]
    /\ UNCHANGED <<models_cache, details_cache>>
    /\ Outside

\* the extraction and "self._models_cache[cache_key] = result" /
\* "self._details_cache[cache_key] = data", up to the new link
ResultStore(c) ==
    /\ callers[c].pc = "result_store"
    /\ \E value \in {Extract(callers[c].op, callers[c].html[1], callers[c].key)} :
          IF Unlinked(c, "result_link", callers[c].key)
          THEN /\ callers' = Overwritten(c, "result_link", value)
               /\ UNCHANGED <<models_cache, details_cache>>
          ELSE IF callers[c].key \in TTLKeys(TTLExpire(ResultCache(callers[c].op), now))
          THEN /\ callers' = [callers EXCEPT ![c].pc = "done", ![c].outcome = "return",
                                             ![c].result = Some(value)]
               /\ ResultCacheBecomes(callers[c].op,
                     TTLSet(ResultCache(callers[c].op), callers[c].key, value, now,
                            ResultMaxSize(callers[c].op)))
          ELSE /\ callers' = [callers EXCEPT ![c].pc = "result_link",
                                             ![c].pending = Some(value),
                                             ![c].result = Some(value)]
               /\ ResultCacheBecomes(callers[c].op,
                     TTLEvict(TTLExpire(ResultCache(callers[c].op), now),
                              ResultMaxSize(callers[c].op)))
    /\ UNCHANGED page_cache
    /\ Outside

\* the link of the result gets its expiry and place; "return result"
ResultLink(c) ==
    /\ callers[c].pc = "result_link"
    /\ ResultCacheBecomes(callers[c].op,
          Append(ResultCache(callers[c].op),
                 [key |-> callers[c].key, val |-> callers[c].pending[1], exp |-> now + TTL]))
    /\ callers' = [callers EXCEPT ![c].pc = "done", ![c].outcome = "return",
                                  ![c].pending = <<>>]
    /\ UNCHANGED page_cache
    /\ Outside

InitRace ==
    /\ site = {Ok(PageA), Ok(PageB), Failure("Timeout")}
    /\ inputs = {"/brand/x", "brand/x/"}
    /\ now = 0
    /\ page_cache = <<>>
    /\ brands_cache = <<>>
    /\ models_cache = <<>>
    /\ details_cache = <<>>
    /\ call = NoCall
    /\ ncalls = 0
    /\ returned = [ok \in OpKeys(inputs) |-> <<>>]
    /\ tg_client = TRUE
    /\ response = NoResponse
    /\ sales_data = <<>>
    /\ tractor_sales = <<>>
    /\ updated = FALSE
    /\ last_update = <<>>
    /\ market_trends = <<>>
    /\ \E op \in Operations, p \in inputs : callers = [c \in Threads |-> Entering(op, p)]

NextRace ==
    \E c \in Threads :
        \/ CachedCheck(c)
        \/ CachedReturn(c)
        \/ PageCheck(c)
        \/ PageReturn(c)
        \/ SessionGet(c)
        \/ PageStore(c)
        \/ PageLink(c)
        \/ ResultStore(c)
        \/ ResultLink(c)

SpecRace == InitRace /\ [][NextRace]_vars

-----------------------------------------------------------------------------
\* both callers have left the operation and no GET has failed
BothDone ==
    \A c \in Threads :
        callers[c].pc = "done" /\ callers[c].error \notin Exceptions

\* the entries the result cache holds for the callers' key
EntriesFor(c) ==
    {i \in 1..Len(ResultCache(callers[c].op)) :
        ResultCache(callers[c].op)[i].key = callers[c].key}

\* C26: when two callers have run the same operation for the same uncached
\* path at the same time and no GET has failed, each has issued one GET at
\* most, each has returned a result extracted from markup the site served,
\* and the result cache holds one entry for the key, whose value is one of
\* the two results.
C26_ConcurrentCallers ==
    (DOMAIN callers = Threads /\ BothDone) =>
        /\ \A c \in Threads :
              /\ callers[c].gets <= 1
              /\ callers[c].outcome = "return"
              /\ \E resp \in site :
                    /\ resp.status = "ok"
                    /\ callers[c].result =
                          Some(Extract(callers[c].op, resp.body, callers[c].key))
        /\ \A c \in Threads :
              /\ Cardinality(EntriesFor(c)) = 1
              /\ \A i \in EntriesFor(c) :
                    \E d \in Threads :
                        callers[d].result = Some(ResultCache(callers[c].op)[i].val)

-----------------------------------------------------------------------------
(* All three operations on more paths than the result caches have room     *)
(* for, while time passes.                                                 *)

InitFull ==
    /\ site = {Ok(PageA), Failure("Timeout")}
    /\ inputs = {"/a", "/b", "/c"}
    /\ Fresh

NextFull == Tick \/ CallBrandModels \/ CallModelDetails \/ CallBrands

SpecFull == InitFull /\ [][NextFull]_vars

\* the step puts a key into the cache that the cache did not hold
AddsKey(before, after) == TTLKeys(after) \ TTLKeys(before) # {}

\* a store into a cache that is full neither fails nor makes the cache
\* grow: an entry the cache held is gone
Evicts(before, after, maxsize) ==
    (Len(before) = maxsize /\ AddsKey(before, after)) =>
        /\ Len(after) <= maxsize
        /\ Contents(before) \ Contents(after) # {}
        /\ call'.outcome = "return"

\* C27: after any sequence of calls the page, models and details caches
\* hold no more entries than their capacity (PageMaxSize, ModelsMaxSize and
\* DetailsMaxSize here; 128, 128 and 256 in the source) and the brands cache
\* at most one, under the key "brands"; a store into a full cache evicts an
\* entry the cache held.
C27_CachesWithinCapacity ==
    [][/\ Len(page_cache') <= PageMaxSize
       /\ Len(models_cache') <= ModelsMaxSize
       /\ Len(details_cache') <= DetailsMaxSize
       /\ Len(brands_cache') <= 1
       /\ TTLKeys(brands_cache') \subseteq {"brands"}
       /\ Evicts(page_cache, page_cache', PageMaxSize)
       /\ Evicts(models_cache, models_cache', ModelsMaxSize)
       /\ Evicts(details_cache, details_cache', DetailsMaxSize)
       /\ Evicts(brands_cache, brands_cache', BrandsMaxSize)]_vars

\* C27's case: get_model_details stored a record into the full details
\* cache, which no longer holds the record of a path it returned before
C27_Witness ==
    /\ call.op = "get_model_details"
    /\ call.outcome = "return"
    /\ GetsOf(call) = 1
    /\ Len(details_cache) = DetailsMaxSize
    /\ call.key \in TTLKeys(details_cache)
    /\ \E p \in inputs :
          /\ returned[<<"get_model_details", CacheKey(p)>>] # <<>>
          /\ CacheKey(p) \notin TTLKeys(details_cache)

-----------------------------------------------------------------------------
(* get_brand_models on pages of model cards: containers whose first anchor *)
(* the selector picks too, containers whose first anchor it does not pick, *)
(* and plain anchors.                                                      *)

CardNodes ==
    {Li("model", <<Anchor("/tractor/575", "", "Novo"), Img(" /novo.png "),
                   TextNode(" Rs 7 lakh ")>>),
     Li("model", <<Anchor("tractor/575", "", "Novo S"), Img("/s.png")>>),
     Anchor("/tractor/575", "", "Arjun Tractors"),
     Div("model-card", <<TextNode("Price on request"), Anchor("/models/745", "", "Yuvo"),
                         Img("/y1.png"), Img("/y2.png")>>),
     Div("model", <<Anchor("/tractor/745/", "", "Yuvo Tech Rs 6 lakh")>>)}

InitCards ==
    /\ site \in {{Ok(Markup(MinMarkupLen + 1, nodes))} : nodes \in Documents(CardNodes)}
    /\ inputs = {"/brand/x"}
    /\ Fresh

NextCards == CallBrandModels

SpecCards == InitCards /\ [][NextCards]_vars

\* the selected element gives a candidate
GivesCandidate(el) == IsModelCard(el) /\ IsCandidate(CardFields(el))

\* the elements the candidates come from, in document order: Candidates[i]
\* comes from Sources[i]
Sources == SelectSeq(Flatten(ThePage.nodes), GivesCandidate)

IsContainer(el) == el.tag \in {"div", "li"}

\* the first anchor of a container
FirstAnchor(card) == Head(SelectSeq(card.kids, IsAnchorWithHref))

\* the thumbnail and the price of a container: its first image and its first
\* text that matches the price pattern, absent when it has none
ThumbnailOf(card) ==
    IF SelectSeq(card.kids, HasSrc) = <<>> THEN <<>>
    ELSE Some(Strip(Head(SelectSeq(card.kids, HasSrc)).src[1]))

PriceOf(card) ==
    IF SelectSeq(card.kids, HasPriceString) = <<>> THEN <<>>
    ELSE Some(Strip(Head(SelectSeq(card.kids, HasPriceString)).text))

\* an entry of a plain anchor has no thumbnail and no price; an entry of a
\* container has those of the container
FieldsBySource ==
    \A i \in 1..Len(Sources) :
        /\ Sources[i].tag = "a" =>
              (Candidates[i].thumbnail = <<>> /\ Candidates[i].price = <<>>)
        /\ IsContainer(Sources[i]) =>
              /\ Candidates[i].thumbnail = ThumbnailOf(Sources[i])
              /\ Candidates[i].price = PriceOf(Sources[i])

\* the container's first anchor is picked by the selector too
AnchorPicked(card) == IsContainer(card) /\ Contains(FirstAnchor(card).href[1], "/tractor")

\* the entry returned for a path
Returned(path) ==
    call.result[1][CHOOSE m \in 1..Len(call.result[1]) : call.result[1][m].path = path]

\* C28, as stated: an entry of a plain anchor has no thumbnail and no price,
\* an entry of a container has those of the container, and when the first
\* anchor of a container is a candidate itself, the entry returned for its
\* path is the anchor's, without thumbnail and price.
C28_AnchorEntryReturned ==
    (call.op = "get_brand_models" /\ call.outcome = "return") =>
        /\ FieldsBySource
        /\ \A i \in 1..Len(Sources) :
              AnchorPicked(Sources[i]) =>
                  /\ Returned(Candidates[i].path).thumbnail = <<>>
                  /\ Returned(Candidates[i].path).price = <<>>

\* C28, amended: as above, but the entry returned for the path is the last
\* candidate of the path; the anchor's candidate follows the container's,
\* so the entry returned is the anchor's unless a container that comes later
\* gives a candidate of the same path.
C28_AnchorEntryUnlessLaterContainer ==
    (call.op = "get_brand_models" /\ call.outcome = "return") =>
        /\ FieldsBySource
        /\ \A i \in 1..Len(Sources) :
              AnchorPicked(Sources[i]) =>
                  /\ i < Len(Sources)
                  /\ Sources[i + 1] = FirstAnchor(Sources[i])
                  /\ Candidates[i + 1].path = Candidates[i].path
                  /\ Returned(Candidates[i].path)
                        = Candidates[LastCandidate(Candidates[i].path)]
                  /\ (~\E j \in (i + 1)..Len(Sources) :
                          /\ IsContainer(Sources[j])
                          /\ Candidates[j].path = Candidates[i].path)
                     => /\ Returned(Candidates[i].path).thumbnail = <<>>
                        /\ Returned(Candidates[i].path).price = <<>>

\* C28's case: a container with an image and a price whose first anchor is a
\* candidate, and the entry returned for its path has neither
C28_Witness ==
    /\ call.op = "get_brand_models"
    /\ call.outcome = "return"
    /\ \E i \in 1..Len(Sources) :
          /\ AnchorPicked(Sources[i])
          /\ Candidates[i].thumbnail # <<>>
          /\ Candidates[i].price # <<>>
          /\ Returned(Candidates[i].path).name = GetText(FirstAnchor(Sources[i]))
          /\ Returned(Candidates[i].path).thumbnail = <<>>
          /\ Returned(Candidates[i].path).price = <<>>

-----------------------------------------------------------------------------
(* get_brands over a day: a site whose listing paths answer with an empty  *)
(* body, with a long page without brand links, with a long page with one,  *)
(* or not at all.                                                          *)

PageEmpty == Markup(0, <<>>)

PageBare == Markup(MinMarkupLen + 100, <<Heading("Tractors"), Img("/banner.png")>>)

InitListing ==
    /\ site = {Ok(PageEmpty), Ok(PageBare), Ok(PageA), Failure("Timeout")}
    /\ inputs = {}
    /\ Fresh

NextListing == Tick \/ CallBrands

SpecListing == InitListing /\ [][NextListing]_vars

RECURSIVE HeldMarkup(_)
\* the markup the loop of get_brands holds after these fetches: that of the
\* last fetch that did not raise
HeldMarkup(fetches) ==
    IF fetches = <<>> THEN <<>>
    ELSE IF fetches[Len(fetches)].error = <<>> THEN fetches[Len(fetches)].html
    ELSE HeldMarkup(SubSeq(fetches, 1, Len(fetches) - 1))

\* the call obtained markup to parse
ObtainedMarkup(fetches) == HeldMarkup(fetches) # <<>> /\ HeldMarkup(fetches)[1].size > 0

\* a list stored under "brands" less than 24 hours ago
StoredLists == {i \in 1..Len(brands_cache) : now - (brands_cache[i].exp - TTL) < TTL}

\* C29: get_brands stores under "brands" only when it obtained markup: a call
\* without a stored list tries the listing paths; when none gives markup it
\* returns [] and stores nothing, otherwise it stores what it returns, the
\* empty list too, as the only entry; and a call less than 24 hours after
\* the store returns the stored list and fetches nothing.
C29_BrandsStoredOnlyFromMarkup ==
    [][(call'.op = "get_brands" /\ ncalls' = ncalls + 1) =>
        /\ \A i \in StoredLists :
              /\ brands_cache[i].key = "brands"
              /\ call'.fetches = <<>>
              /\ call'.outcome = "return"
              /\ call'.result = Some(brands_cache[i].val)
              /\ brands_cache' = brands_cache
        /\ StoredLists = {} =>
              /\ call'.fetches # <<>>
              /\ call'.fetches[1].url = ResolveUrl(possible_paths[1])
              /\ call'.outcome = "return"
              /\ IF ObtainedMarkup(call'.fetches)
                 THEN /\ call'.parsed = HeldMarkup(call'.fetches)
                      /\ Len(brands_cache') = 1
                      /\ brands_cache'[1].key = "brands"
                      /\ brands_cache'[1].val = call'.result[1]
                      /\ brands_cache'[1].exp = now + TTL
                 ELSE /\ call'.result = Some(<<>>)
                      /\ call'.parsed = <<>>
                      /\ brands_cache' = brands_cache]_vars

\* C29's case: a call parsed a page without brands, and the third call, half
\* a day after the store, returned the stored empty list without a fetch
C29_Witness ==
    /\ call.op = "get_brands"
    /\ call.fetches = <<>>
    /\ call.result = Some(<<>>)
    /\ ncalls = 3
    /\ now = HalfDay
    /\ Len(brands_cache) = 1
    /\ brands_cache[1].exp = TTL
    /\ Len(page_cache) = 1
    /\ page_cache[1].val = PageBare

-----------------------------------------------------------------------------
\* the two rows of market_trends a successful run writes at a time
TwoTrends(stamp) ==
    <<TrendRow("total_daily_sales", stamp), TrendRow("avg_revenue", stamp)>>

\* an update that got this data has put it in place of the sales data and
\* of the rows of the table, and has added two rows to the trends
Replaced(u, new_data, trends) ==
    /\ Len(new_data) = 5
    /\ u.sales_data = new_data
    /\ u.tractor_sales = new_data
    /\ u.last_update # <<>>
    /\ u.market_trends = trends \o TwoTrends(u.last_update[1])

\* the state of the sales API that an update can change
SalesState ==
    [sales_data |-> sales_data, tractor_sales |-> tractor_sales, last_update |-> last_update,
     market_trends |-> market_trends]

=============================================================================
